---- MODULE Spec2Model ----
(***************************************************************************)
(* Model of the reactive data store (DataController) of the               *)
(* DataRenderEngine: filtering, sorting, pagination and selection          *)
(* bookkeeping, with the change notifications it emits.                    *)
(***************************************************************************)
EXTENDS Integers, Sequences, FiniteSets, TLC

(***************************************************************************)
(* Bounds of the model.                                                    *)
(***************************************************************************)
\* longest dataset handed to setData
MaxRows == 3
\* largest page size configured or chosen in the page-size selector
MaxPageSize == 2
\* goToPage is called with pages 0 .. MaxPageArg
MaxPageArg == 4

(***************************************************************************)
(* JavaScript values carried by a record: string (a sequence of            *)
(* characters), number, boolean, null.                                     *)
(***************************************************************************)
Str(s) == [t |-> "str", s |-> s, n |-> 0]
Num(n) == [t |-> "num", s |-> <<>>, n |-> n]
Bool(b) == [t |-> "bool", s |-> <<>>, n |-> IF b THEN 1 ELSE 0]
Null == [t |-> "null", s |-> <<>>, n |-> 0]
\* a plain object such as {}, and undefined
PlainObject == [t |-> "object", s |-> <<>>, n |-> 0]
UndefinedValue == [t |-> "undefined", s |-> <<>>, n |-> 0]

\* the characters of the model's strings, in UTF-16 code-unit order
Alphabet ==
    << " ", "$", ",", "-", ".", "0", "1", "2", "3", "4", "5", "6", "7", "8", "9",
       "A", "B", "R", "a", "b", "e", "f", "l", "n", "o", "r", "s", "t", "u" >>

Digits == << "0", "1", "2", "3", "4", "5", "6", "7", "8", "9" >>

CodeUnit(c) == CHOOSE i \in 1..Len(Alphabet) : Alphabet[i] = c

IsDigit(c) == \E i \in 1..Len(Digits) : Digits[i] = c

DigitValue(c) == (CHOOSE i \in 1..Len(Digits) : Digits[i] = c) - 1

\* String.prototype.toLowerCase, one character
LowerChar(c) ==
    CASE c = "A" -> "a"
      [] c = "B" -> "b"
      [] c = "R" -> "r"
      [] OTHER -> c

ToLowerCase(s) == [i \in 1..Len(s) |-> LowerChar(s[i])]

\* decimal digits of a natural number
RECURSIVE NatToStr(_)
NatToStr(n) ==
    IF n < 10 THEN << Digits[n + 1] >>
    ELSE NatToStr(n \div 10) \o << Digits[(n % 10) + 1] >>

\* String(val)
ToStr(val) ==
    CASE val.t = "str" -> val.s
      [] val.t = "num" -> IF val.n < 0 THEN << "-" >> \o NatToStr(-val.n) ELSE NatToStr(val.n)
      [] val.t = "bool" -> IF val.n = 1 THEN << "t", "r", "u", "e" >> ELSE << "f", "a", "l", "s", "e" >>
      [] OTHER -> << "n", "u", "l", "l" >>

\* JavaScript truthiness of a value (val && ...)
Truthy(val) ==
    CASE val.t = "str" -> val.s # <<>>
      [] val.t = "num" -> val.n # 0
      [] val.t = "bool" -> val.n = 1
      [] val.t = "object" -> TRUE
      [] OTHER -> FALSE

\* String.prototype.includes
Includes(s, term) ==
    \E i \in 0..(Len(s) - Len(term)) : SubSeq(s, i + 1, i + Len(term)) = term

\* String.prototype.indexOf for one character, 0-based, -1 when absent
IndexOf(s, c) ==
    IF \E i \in 1..Len(s) : s[i] = c
    THEN (CHOOSE i \in 1..Len(s) : s[i] = c /\ \A j \in 1..(i - 1) : s[j] # c) - 1
    ELSE -1

\* the < of two strings: lexicographic by code unit
RECURSIVE StrLess(_, _)
StrLess(a, b) ==
    IF b = <<>> THEN FALSE
    ELSE IF a = <<>> THEN TRUE
    ELSE IF a[1] = b[1] THEN StrLess(Tail(a), Tail(b))
    ELSE CodeUnit(a[1]) < CodeUnit(b[1])

(***************************************************************************)
(* The records a caller supplies.  Every record carries the same fields;   *)
(* the key field holds numbers and strings, the others strings, numbers,   *)
(* booleans and null.                                                      *)
(***************************************************************************)
Fields == {"ID", "NAME", "AMT", "QTD", "ATIVO"}

keyField == "ID"

Ana ==
    [ID |-> Num(1), NAME |-> Str(<< "A", "n", "a" >>),
     AMT |-> Str(<< "R", "$", " ", "1", ".", "0", "0", "0", ",", "0", "0" >>),
     QTD |-> Num(0), ATIVO |-> Bool(TRUE)]

Bo ==
    [ID |-> Str(<< "2" >>), NAME |-> Str(<< "B", "o" >>),
     AMT |-> Str(<< "R", "$", " ", "2", "0", "0", ",", "0", "0" >>),
     QTD |-> Num(10), ATIVO |-> Bool(FALSE)]

ana ==
    [ID |-> Num(3), NAME |-> Str(<< "a", "n", "a" >>),
     AMT |-> Null,
     QTD |-> Num(5), ATIVO |-> Bool(TRUE)]

Pool == {Ana, Bo, ana}

(***************************************************************************)
(* Numbers are kept as integers scaled by 100 (two decimal places); NaN    *)
(* is a value of its own.                                                  *)
(***************************************************************************)
NaN == [nan |-> TRUE, v |-> 0]
Number(v) == [nan |-> FALSE, v |-> v]

\* number of leading decimal digits of s
RECURSIVE DigitPrefixLen(_)
DigitPrefixLen(s) ==
    IF s # <<>> /\ IsDigit(s[1]) THEN 1 + DigitPrefixLen(Tail(s)) ELSE 0

RECURSIVE DigitsToNat(_)
DigitsToNat(s) ==
    IF s = <<>> THEN 0
    ELSE 10 * DigitsToNat(SubSeq(s, 1, Len(s) - 1)) + DigitValue(s[Len(s)])

\* the first two decimal places of a digit string, as hundredths
Hundredths(frac) ==
    IF frac = <<>> THEN 0
    ELSE IF Len(frac) = 1 THEN 10 * DigitValue(frac[1])
    ELSE 10 * DigitValue(frac[1]) + DigitValue(frac[2])

\* parseFloat: the longest prefix [-]digits[.digits], NaN when it has no digit
ParseFloat(s) ==
    LET neg == s # <<>> /\ s[1] = "-"
        body == IF neg THEN Tail(s) ELSE s
        nInt == DigitPrefixLen(body)
        rest == SubSeq(body, nInt + 1, Len(body))
        hasDot == rest # <<>> /\ rest[1] = "."
        nFrac == IF hasDot THEN DigitPrefixLen(Tail(rest)) ELSE 0
        frac == IF hasDot THEN SubSeq(rest, 2, 1 + nFrac) ELSE <<>>
        mag == 100 * DigitsToNat(SubSeq(body, 1, nInt)) + Hundredths(frac)
    IN  IF nInt = 0 /\ nFrac = 0 THEN NaN
        ELSE Number(IF neg THEN -mag ELSE mag)

\* parseInt of the page-size selector's value
ParseInt(s) ==
    LET p == ParseFloat(s)
    IN  IF p.nan THEN p ELSE Number(p.v \div 100)

\* val.replace(/[R$\s.]/g, '')
StripMoneyChars(s) == SelectSeq(s, LAMBDA c : c \notin {"R", "$", " ", "."})

\* s.replace(',', '.'): the first comma only
ReplaceFirstComma(s) ==
    LET i == IndexOf(s, ",")
    IN  IF i < 0 THEN s ELSE [j \in 1..Len(s) |-> IF j = i + 1 THEN "." ELSE s[j]]

\* applyFilters, the comparator's parseMoney
parseMoney(val) ==
    IF val.t = "num" THEN Number(100 * val.n)
    ELSE IF val.t # "str" THEN NaN
    ELSE IF IndexOf(val.s, "-") > 0 THEN NaN
    ELSE ParseFloat(ReplaceFirstComma(StripMoneyChars(val.s)))

\* a comparator that forgets the direction
DefaultCompareAscOnly(a, b, field, direction) ==
    LET valA == IF a[field].t = "null" THEN Str(<<>>) ELSE a[field]
        valB == IF b[field].t = "null" THEN Str(<<>>) ELSE b[field]
        numA == parseMoney(valA)
        numB == parseMoney(valB)
        numeric == ~numA.nan /\ ~numB.nan /\ valA # Str(<<>>) /\ valB # Str(<<>>)
        strA == ToLowerCase(ToStr(valA))
        strB == ToLowerCase(ToStr(valB))
    IN  IF (IF numeric THEN numA.v < numB.v ELSE StrLess(strA, strB)) THEN -1
        ELSE IF (IF numeric THEN numA.v > numB.v ELSE StrLess(strB, strA)) THEN 1
        ELSE 0

\* the comparator handed to result.sort in applyFilters: -1, 0 or 1
DefaultCompare(a, b, field, direction) ==
    LET valA == IF a[field].t = "null" THEN Str(<<>>) ELSE a[field]
        valB == IF b[field].t = "null" THEN Str(<<>>) ELSE b[field]
        numA == parseMoney(valA)
        numB == parseMoney(valB)
        numeric == ~numA.nan /\ ~numB.nan /\ valA # Str(<<>>) /\ valB # Str(<<>>)
        strA == ToLowerCase(ToStr(valA))
        strB == ToLowerCase(ToStr(valB))
        less == IF numeric THEN numA.v < numB.v ELSE StrLess(strA, strB)
        greater == IF numeric THEN numA.v > numB.v ELSE StrLess(strB, strA)
    IN  IF less THEN (IF direction = "asc" THEN -1 ELSE 1)
        ELSE IF greater THEN (IF direction = "asc" THEN 1 ELSE -1)
        ELSE 0

\* DefaultCompare over the records of the pool, computed once
CompareTable ==
    [a \in Pool, b \in Pool, field \in Fields, direction \in {"asc", "desc"} |->
        DefaultCompare(a, b, field, direction)]

\* Array.prototype.sort is stable: x goes before the first element it is less than
RECURSIVE InsertSorted(_, _, _, _)
InsertSorted(x, sorted, field, direction) ==
    IF sorted = <<>> THEN << x >>
    ELSE IF CompareTable[x, sorted[1], field, direction] < 0 THEN << x >> \o sorted
    ELSE << sorted[1] >> \o InsertSorted(x, Tail(sorted), field, direction)

RECURSIVE SortRecords(_, _, _)
SortRecords(list, field, direction) ==
    IF list = <<>> THEN <<>>
    ELSE InsertSorted(list[Len(list)],
                      SortRecords(SubSeq(list, 1, Len(list) - 1), field, direction),
                      field, direction)

\* the datasets handed to setData: lists of distinct records (unique keys)
Datasets ==
    UNION {{d \in [1..n -> Pool] : \A i, j \in 1..n : i # j => d[i] # d[j]} : n \in 0..MaxRows}

\* the search box's texts
SearchTexts == {<<>>, << "A" >>, << "0" >>}

\* the fields a header click or a caller sorts by
SortFields == {"NAME", "AMT"}

\* config.searchFields of the constructor
SearchFieldChoices == {<<>>, << "NAME", "QTD" >>}

\* the columns the table may have hidden (TableRenderer.hiddenColumns)
HiddenChoices == {{}, {"NAME"}}

\* a comparator supplied by the caller of setSort: (a, b) => a.ID - b.ID
CustomCompares == {"byKeyAsc"}

NoCompare == "undefined"

NullField == "null"

\* String(item[keyField])
KeyOf(item) == ToStr(item[keyField])

(***************************************************************************)
(* The Store.                                                              *)
(***************************************************************************)
VARIABLES
    data,            \* this.data
    filteredData,    \* this.filteredData
    selectedIds,     \* this.selectedIds, a set of key strings
    searchTerm,      \* this.searchTerm: [def |-> FALSE] until first set
    sortConfig,      \* this.sortConfig
    pagination,      \* this.pagination
    searchFields,    \* this.searchFields
    hiddenColumns,   \* the set behind this.isFieldVisible
    lastOp,          \* the operation that ran last
    notified,        \* onDataChange calls made by the last operation
    selNotified,     \* onSelectionChange calls made by the last operation
    onDataChange,    \* this.onDataChange is set (FALSE once it is null)
    onSelectionChange, \* this.onSelectionChange is set (FALSE once it is null)
    destroyed,       \* this._destroyed
    threw,           \* the last operation ended in a TypeError
    warned           \* console.warn calls made by the last operation

\* One call of NestedAccordionRenderer.groupByLevels.
VARIABLES
    gRecords,        \* the data argument
    gLevels,         \* the levels argument
    gTree            \* the value returned, NotGrouped before the call

\* A NestedAccordionRenderer around a Store, with the leaf tables it renders.
VARIABLES
    accordionLevels,      \* this.levels
    accordionPagination,  \* this.pagination of the accordion
    hasDataLoaded,        \* this.hasDataLoaded
    expandedGroups,       \* this.expandedGroups, a set of uniqueIds
    cards,                \* the group cards in the DOM, with this._groupItemsMap
    leafTables,           \* the leaf tables in the DOM, each with its Store
    renders,              \* render() calls of the accordion in the last operation
    visualUpdates,        \* accordion updateSelectionVisuals() runs in the last operation
    leafUpdates           \* leaf-table re-renders and visual updates in the last operation

\* A TableRenderer around a Store.
VARIABLES
    sortState             \* this.sortState: the sort the headers display

\* One call of ColumnWidthUtils.computeAutoWidths.
VARIABLES
    wColumns,             \* columns: the column definitions
    wData,                \* data: the rows the widths are sampled from
    wViewport,            \* window.innerWidth
    widthMap              \* the returned Map: field -> pixel width or null

\* One comparison of the sort of applyFilters.
VARIABLES
    cmpArgs,              \* the two values and the direction
    cmpResult             \* what the comparator returned

\* One call of RendererUtils.runHook.
VARIABLES
    plugins,              \* the plugin list of the host
    hookOutcome           \* the hooks that ran, the errors logged, what the caller saw

\* The columns of a TableRenderer and their manager.
VARIABLES
    tableConfig,          \* config: columns, criticalColumns, plugins, persistenceKey
    savedColumns          \* localStorage['tr-cols-' + persistenceKey]

\* The width cache of a TableRenderer.
VARIABLES
    dataRef,              \* the array this.dataController.data refers to
    lastDatasetRef,       \* this._lastDatasetRef
    widthCache,           \* this._widthCache, with the array each map was computed from
    usedWidths            \* the width map of the last render

\* RendererUtils._instances, for one container.
VARIABLES
    registry              \* the instance of the container and its _configHash

vars ==
    << data, filteredData, selectedIds, searchTerm, sortConfig, pagination,
       searchFields, hiddenColumns, lastOp, notified, selNotified,
       onDataChange, onSelectionChange, destroyed, threw, warned,
       gRecords, gLevels, gTree,
       accordionLevels, accordionPagination, hasDataLoaded, expandedGroups,
       cards, leafTables, renders, visualUpdates, leafUpdates,
       sortState,
       wColumns, wData, wViewport, widthMap,
       cmpArgs, cmpResult, plugins, hookOutcome, tableConfig, savedColumns,
       dataRef, lastDatasetRef, widthCache, usedWidths, registry >>

groupVars == << gRecords, gLevels, gTree >>

accordionVars ==
    << accordionLevels, accordionPagination, hasDataLoaded, expandedGroups,
       cards, leafTables, renders, visualUpdates, leafUpdates >>

\* the fields of the Store and the record of its last operation
storeVars ==
    << data, filteredData, selectedIds, searchTerm, sortConfig, pagination,
       searchFields, hiddenColumns, lastOp, notified, selNotified,
       onDataChange, onSelectionChange, destroyed, threw, warned >>

widthVars == << wColumns, wData, wViewport, widthMap >>

compareVars == << cmpArgs, cmpResult >>

hookVars == << plugins, hookOutcome >>

columnVars == << tableConfig, savedColumns >>

cacheVars == << dataRef, lastDatasetRef, widthCache, usedWidths >>

\* what the data and sort operations of a table leave alone
tableRest == << widthVars, compareVars, hookVars, columnVars, registry >>

tableVars == << sortState, cacheVars, tableRest >>

\* what a Store on its own leaves alone
others == << groupVars, accordionVars, tableVars >>

NotGrouped == [tag |-> "not grouped", list |-> <<>>, entries |-> <<>>]

\* no grouping call is under way
NoGrouping ==
    /\ gRecords = <<>>
    /\ gLevels = <<>>
    /\ gTree = NotGrouped

\* the Store belongs to no accordion
NoAccordion ==
    /\ accordionLevels = <<>>
    /\ accordionPagination = [enabled |-> FALSE, currentPage |-> 1, pageSize |-> 1,
                              totalItems |-> 0, totalPages |-> 0]
    /\ hasDataLoaded = FALSE
    /\ expandedGroups = {}
    /\ cards = {}
    /\ leafTables = {}
    /\ renders = 0
    /\ visualUpdates = 0
    /\ leafUpdates = [rendered |-> 0, visuals |-> 0]

\* the Store belongs to no table
\* no width computation is under way
NoWidths ==
    /\ wColumns = <<>>
    /\ wData = <<>>
    /\ wViewport = 0
    /\ widthMap = <<>>

\* no comparison is under way
NoComparison ==
    /\ cmpArgs = <<>>
    /\ cmpResult = <<>>

\* no hook is being run
NoHooks ==
    /\ plugins = <<>>
    /\ hookOutcome = <<>>

\* no column configuration
NoColumns ==
    /\ tableConfig = <<>>
    /\ savedColumns = <<>>

\* the width cache of a new table: this._widthCache = new Map(), this._lastDatasetRef = null
NoCache ==
    /\ dataRef = 0
    /\ lastDatasetRef = 0
    /\ widthCache = <<>>
    /\ usedWidths = <<>>

\* no instance registered
NoRegistry == registry = <<>>

\* the parts of a table that are not under study, all but those named
NoTableBut(parts) ==
    /\ IF "sort" \in parts THEN TRUE ELSE sortState = [field |-> "null", direction |-> "asc"]
    /\ IF "widths" \in parts THEN TRUE ELSE NoWidths
    /\ IF "compare" \in parts THEN TRUE ELSE NoComparison
    /\ IF "hooks" \in parts THEN TRUE ELSE NoHooks
    /\ IF "columns" \in parts THEN TRUE ELSE NoColumns
    /\ IF "cache" \in parts THEN TRUE ELSE NoCache
    /\ IF "registry" \in parts THEN TRUE ELSE NoRegistry

NoTable == NoTableBut({})

Undefined == [def |-> FALSE, s |-> <<>>]
Term(s) == [def |-> TRUE, s |-> s]

\* isFieldVisible: (field) => !this.hiddenColumns.has(field)
isFieldVisible(hidden, field) == field \notin hidden

\* does one field of the item match the lower-cased term
FieldMatches(item, field, term, hidden) ==
    /\ isFieldVisible(hidden, field)
    /\ field \in DOMAIN item
    /\ Truthy(item[field])
    /\ Includes(ToLowerCase(ToStr(item[field])), term)

\* the predicate of this.data.filter in applyFilters
ItemMatches(item, term, sFields, hidden) ==
    IF Len(sFields) > 0
    THEN \E i \in 1..Len(sFields) : FieldMatches(item, sFields[i], term, hidden)
    ELSE \E key \in DOMAIN item : FieldMatches(item, key, term, hidden)

\* ItemMatches over the pool and the configurations, computed once
MatchTable ==
    [item \in Pool, text \in SearchTexts, sFields \in SearchFieldChoices, hidden \in HiddenChoices |->
        ItemMatches(item, ToLowerCase(text), sFields, hidden)]

\* applyFilters, the filter block
FilterRecords(d, term, sFields, hidden) ==
    IF ~term.def \/ term.s = <<>> THEN d
    ELSE SelectSeq(d, LAMBDA item : MatchTable[item, term.s, sFields, hidden])

\* applyFilters: the value assigned to this.filteredData
applyFilters(d, term, sort, sFields, hidden) ==
    LET result == FilterRecords(d, term, sFields, hidden)
    IN  IF sort.field # NullField /\ sort.direction # "null"
        THEN SortRecords(result, sort.field, sort.direction)
        ELSE result

\* Math.ceil(this.filteredData.length / pageSize) || 1
TotalPagesOf(count, pageSize) ==
    IF count = 0 THEN 1 ELSE (count + pageSize - 1) \div pageSize

getTotalPages == TotalPagesOf(Len(filteredData), pagination.pageSize)

\* this.sortConfig = null: reading a property of it is a TypeError
NullObject == [field |-> "no object", direction |-> "no object", customCompare |-> "no object"]

\* notifyChange(): if (this.onDataChange) this.onDataChange(this.getDataSnapshot())
notifyChange == IF onDataChange THEN 1 ELSE 0

\* if (this.onSelectionChange) this.onSelectionChange(this.getSelectedItems())
notifySelection == IF onSelectionChange THEN 1 ELSE 0

\* the operation returns normally and leaves the callbacks alone
Completes ==
    /\ threw' = FALSE
    /\ warned' = 0
    /\ UNCHANGED << onDataChange, onSelectionChange, destroyed >>

\* the call of this.applyFilters() that ends setData, setSearchTerm and setSort:
\* line 124 reads this.sortConfig.field before filteredData is assigned
runApplyFilters(d, term, sort) ==
    IF sort = NullObject
    THEN /\ UNCHANGED filteredData
         /\ notified' = 0
         /\ threw' = TRUE
    ELSE /\ filteredData' = applyFilters(d, term, sort, searchFields, hiddenColumns)
         /\ notified' = notifyChange
         /\ threw' = FALSE

\* new DataController(config)
constructor(config) ==
    /\ data = <<>>
    /\ filteredData = <<>>
    /\ selectedIds = {}
    /\ searchTerm = Undefined
    /\ sortConfig = [field |-> NullField, direction |-> "null", customCompare |-> NoCompare]
    /\ \E size \in 1..MaxPageSize : pagination = [pageSize |-> size, currentPage |-> 1]
    /\ searchFields = config.searchFields
    /\ hiddenColumns = config.hidden
    /\ lastOp = "constructor"
    /\ notified = 0
    /\ selNotified = 0
    /\ onDataChange = TRUE
    /\ onSelectionChange = config.onSelectionChange
    /\ destroyed = FALSE
    /\ threw = FALSE
    /\ warned = 0

\* a table without search fields (config.searchFields || []) and without hidden columns
DefaultConfig == [searchFields |-> <<>>, hidden |-> {}, onSelectionChange |-> TRUE]

Init == constructor(DefaultConfig) /\ NoGrouping /\ NoAccordion /\ NoTable

\* tables with and without explicit search fields and hidden columns
InitSearch ==
    /\ \E sf \in SearchFieldChoices, hidden \in HiddenChoices :
        constructor([searchFields |-> sf, hidden |-> hidden, onSelectionChange |-> TRUE])
    /\ NoGrouping
    /\ NoAccordion
    /\ NoTable

\* setData(data) with an array
setData(d) ==
    /\ data' = d
    /\ runApplyFilters(d, searchTerm, sortConfig)
    /\ lastOp' = "setData"
    /\ selNotified' = 0
    /\ warned' = 0
    /\ UNCHANGED << selectedIds, searchTerm, sortConfig, pagination, searchFields, hiddenColumns >>
    /\ UNCHANGED << onDataChange, onSelectionChange, destroyed >>

\* the values other than arrays a caller may hand to setData
NonArrays ==
    {PlainObject, Str(<< "A" >>), Str(<<>>), Num(5), Num(0), Null, UndefinedValue}

\* a setData without the Array.isArray guard: a truthy value that is not an
\* array reaches the filter as it is and the call fails there
setDataNonArrayUnguarded(value) ==
    /\ value \in NonArrays
    /\ data' = <<>>
    /\ IF Truthy(value)
       THEN /\ UNCHANGED filteredData
            /\ notified' = 0
            /\ threw' = TRUE
       ELSE runApplyFilters(<<>>, searchTerm, sortConfig)
    /\ lastOp' = "setData"
    /\ selNotified' = 0
    /\ warned' = 0
    /\ UNCHANGED << selectedIds, searchTerm, sortConfig, pagination, searchFields, hiddenColumns >>
    /\ UNCHANGED << onDataChange, onSelectionChange, destroyed >>

\* setData(data) with a value that is not an array: a truthy one is replaced
\* by [] with a warning, a falsy one by data || []
setDataNonArray(value) ==
    /\ value \in NonArrays
    /\ data' = <<>>
    /\ runApplyFilters(<<>>, searchTerm, sortConfig)
    /\ lastOp' = "setData"
    /\ selNotified' = 0
    /\ warned' = IF Truthy(value) THEN 1 ELSE 0
    /\ UNCHANGED << selectedIds, searchTerm, sortConfig, pagination, searchFields, hiddenColumns >>
    /\ UNCHANGED << onDataChange, onSelectionChange, destroyed >>

\* a setSearchTerm that narrows the previous view instead of recomputing from rawData
setSearchTermPatchesView(term) ==
    /\ lastOp' = "setSearchTerm"
    /\ selNotified' = 0
    /\ IF searchTerm # Term(term)
       THEN /\ searchTerm' = Term(term)
            /\ pagination' = [pagination EXCEPT !.currentPage = 1]
            /\ filteredData' = applyFilters(filteredData, Term(term), sortConfig, searchFields, hiddenColumns)
            /\ notified' = notifyChange
       ELSE /\ UNCHANGED << searchTerm, pagination, filteredData >>
            /\ notified' = 0
    /\ UNCHANGED << data, selectedIds, sortConfig, searchFields, hiddenColumns >>
    /\ Completes

\* a setSearchTerm without the equality guard
setSearchTermAlwaysApplies(term) ==
    /\ lastOp' = "setSearchTerm"
    /\ selNotified' = 0
    /\ searchTerm' = Term(term)
    /\ pagination' = [pagination EXCEPT !.currentPage = 1]
    /\ filteredData' = applyFilters(data, Term(term), sortConfig, searchFields, hiddenColumns)
    /\ notified' = notifyChange
    /\ UNCHANGED << data, selectedIds, sortConfig, searchFields, hiddenColumns >>
    /\ Completes

\* a setSearchTerm that drops the selected keys that left the view
setSearchTermPrunesSelection(term) ==
    LET view == applyFilters(data, Term(term), sortConfig, searchFields, hiddenColumns)
    IN  /\ lastOp' = "setSearchTerm"
        /\ selNotified' = 0
        /\ IF searchTerm # Term(term)
           THEN /\ searchTerm' = Term(term)
                /\ pagination' = [pagination EXCEPT !.currentPage = 1]
                /\ filteredData' = view
                /\ selectedIds' = {k \in selectedIds : \E i \in 1..Len(view) : KeyOf(view[i]) = k}
                /\ notified' = notifyChange
           ELSE /\ UNCHANGED << searchTerm, pagination, filteredData, selectedIds >>
                /\ notified' = 0
        /\ UNCHANGED << data, sortConfig, searchFields, hiddenColumns >>
        /\ Completes

\* setSearchTerm(term)
setSearchTerm(term) ==
    /\ lastOp' = "setSearchTerm"
    /\ selNotified' = 0
    /\ warned' = 0
    /\ IF searchTerm # Term(term)
       THEN /\ searchTerm' = Term(term)
            /\ pagination' = [pagination EXCEPT !.currentPage = 1]
            /\ runApplyFilters(data, Term(term), sortConfig)
       ELSE /\ UNCHANGED << searchTerm, pagination, filteredData >>
            /\ notified' = 0
            /\ threw' = FALSE
    /\ UNCHANGED << data, selectedIds, sortConfig, searchFields, hiddenColumns >>
    /\ UNCHANGED << onDataChange, onSelectionChange, destroyed >>

\* setSort(field, direction, customCompare)
setSort(field, direction, customCompare) ==
    LET config == [field |-> field, direction |-> direction, customCompare |-> customCompare]
    IN  /\ sortConfig' = config
        /\ runApplyFilters(data, searchTerm, config)
        /\ lastOp' = "setSort"
        /\ selNotified' = 0
        /\ warned' = 0
        /\ UNCHANGED << data, selectedIds, searchTerm, pagination, searchFields, hiddenColumns >>
        /\ UNCHANGED << onDataChange, onSelectionChange, destroyed >>

\* a goToPage that clamps the page instead of ignoring it
goToPageClamps(page) ==
    /\ lastOp' = "goToPage"
    /\ selNotified' = 0
    /\ pagination' = [pagination EXCEPT !.currentPage =
            IF page < 1 THEN 1 ELSE IF page > getTotalPages THEN getTotalPages ELSE page]
    /\ notified' = notifyChange
    /\ UNCHANGED << data, filteredData, selectedIds, searchTerm, sortConfig, searchFields, hiddenColumns >>
    /\ Completes

\* goToPage(page)
goToPage(page) ==
    /\ lastOp' = "goToPage"
    /\ selNotified' = 0
    /\ IF page < 1 \/ page > getTotalPages
       THEN /\ UNCHANGED pagination
            /\ notified' = 0
       ELSE /\ pagination' = [pagination EXCEPT !.currentPage = page]
            /\ notified' = notifyChange
    /\ UNCHANGED << data, filteredData, selectedIds, searchTerm, sortConfig, searchFields, hiddenColumns >>
    /\ Completes

\* setPageSize(size), size being the value of the page-size selector
setPageSize(size) ==
    /\ pagination' = [pageSize |-> ParseInt(size).v, currentPage |-> 1]
    /\ lastOp' = "setPageSize"
    /\ notified' = notifyChange
    /\ selNotified' = 0
    /\ UNCHANGED << data, filteredData, selectedIds, searchTerm, sortConfig, searchFields, hiddenColumns >>
    /\ Completes

\* toggleSelection(id)
toggleSelection(id) ==
    LET idStr == ToStr(id)
    IN  /\ selectedIds' = IF idStr \in selectedIds
                          THEN selectedIds \ {idStr}
                          ELSE selectedIds \cup {idStr}
        /\ lastOp' = "toggleSelection"
        /\ notified' = 0
        /\ selNotified' = notifySelection
        /\ UNCHANGED << data, filteredData, searchTerm, sortConfig, pagination, searchFields, hiddenColumns >>
        /\ Completes

\* the keys toggleSelectAll works on: this.filteredData.map(i => String(i[keyField]))
AllIds(list) == {KeyOf(list[i]) : i \in 1..Len(list)}

\* a toggleSelectAll over the raw dataset instead of the filtered view
toggleSelectAllOfRawData(shouldSelect) ==
    /\ selectedIds' = IF shouldSelect
                      THEN selectedIds \cup AllIds(data)
                      ELSE selectedIds \ AllIds(data)
    /\ lastOp' = "toggleSelectAll"
    /\ notified' = notifyChange
    /\ selNotified' = notifySelection
    /\ UNCHANGED << data, filteredData, searchTerm, sortConfig, pagination, searchFields, hiddenColumns >>
    /\ Completes

\* toggleSelectAll(shouldSelect)
toggleSelectAll(shouldSelect) ==
    /\ selectedIds' = IF shouldSelect
                      THEN selectedIds \cup AllIds(filteredData)
                      ELSE selectedIds \ AllIds(filteredData)
    /\ lastOp' = "toggleSelectAll"
    /\ notified' = notifyChange
    /\ selNotified' = notifySelection
    /\ UNCHANGED << data, filteredData, searchTerm, sortConfig, pagination, searchFields, hiddenColumns >>
    /\ Completes

\* isAllSelected(): the early return on an empty view, then Array.every
RECURSIVE EveryKeySelected(_, _)
EveryKeySelected(list, ids) ==
    IF list = <<>> THEN TRUE
    ELSE IF KeyOf(list[1]) \notin ids THEN FALSE
    ELSE EveryKeySelected(Tail(list), ids)

\* an isAllSelected without the early return: Array.every of an empty view is true
isAllSelectedOfEvery == EveryKeySelected(filteredData, selectedIds)

isAllSelected ==
    IF Len(filteredData) = 0 THEN FALSE ELSE EveryKeySelected(filteredData, selectedIds)

\* a getSelectedItems that looks the keys up in the filtered view
getSelectedItemsOfView == SelectSeq(filteredData, LAMBDA item : KeyOf(item) \in selectedIds)

\* getSelectedItems()
getSelectedItems == SelectSeq(data, LAMBDA item : KeyOf(item) \in selectedIds)

\* a position of Array.prototype.slice: negative ones count from the end
SlicePosition(len, position) ==
    IF position < 0
    THEN (IF len + position < 0 THEN 0 ELSE len + position)
    ELSE (IF position > len THEN len ELSE position)

\* Array.prototype.slice(start, end)
Slice(list, start, end) ==
    SubSeq(list, SlicePosition(Len(list), start) + 1, SlicePosition(Len(list), end))

\* getCurrentPageData(), enabled being this.pagination.enabled
getCurrentPageData(enabled) ==
    IF ~enabled THEN filteredData
    ELSE LET start == (pagination.currentPage - 1) * pagination.pageSize
         IN  Slice(filteredData, start, start + pagination.pageSize)

\* getDataSnapshot(): the value handed to onDataChange
getDataSnapshot(enabled) ==
    [pageData |-> getCurrentPageData(enabled),
     pagination |-> pagination,
     total |-> Len(filteredData),
     totalPages |-> getTotalPages,
     stats |-> [start |-> ((pagination.currentPage - 1) * pagination.pageSize) + 1,
                end |-> IF pagination.currentPage * pagination.pageSize < Len(filteredData)
                        THEN pagination.currentPage * pagination.pageSize
                        ELSE Len(filteredData)]]

\* a destroy without the _destroyed guard: every call clears the Store again
destroyEveryTime ==
    /\ lastOp' = "destroy"
    /\ notified' = 0
    /\ selNotified' = 0
    /\ threw' = FALSE
    /\ warned' = 0
    /\ destroyed' = TRUE
    /\ data' = <<>>
    /\ filteredData' = <<>>
    /\ selectedIds' = {}
    /\ onDataChange' = FALSE
    /\ onSelectionChange' = FALSE
    /\ hiddenColumns' = {}
    /\ sortConfig' = NullObject
    /\ UNCHANGED << searchTerm, pagination, searchFields >>

\* destroy(): isFieldVisible = null leaves every field searchable, which is
\* the predicate of an empty hidden set
destroy ==
    /\ lastOp' = "destroy"
    /\ notified' = 0
    /\ selNotified' = 0
    /\ threw' = FALSE
    /\ warned' = 0
    /\ IF destroyed
       THEN UNCHANGED << destroyed, data, filteredData, selectedIds, onDataChange,
                         onSelectionChange, hiddenColumns, sortConfig >>
       ELSE /\ destroyed' = TRUE
            /\ data' = <<>>
            /\ filteredData' = <<>>
            /\ selectedIds' = {}
            /\ onDataChange' = FALSE
            /\ onSelectionChange' = FALSE
            /\ hiddenColumns' = {}
            /\ sortConfig' = NullObject
    /\ UNCHANGED << searchTerm, pagination, searchFields >>

\* the calls a page makes on the Store
SortCalls ==
    {<< NullField, "null", NoCompare >>}
        \cup (SortFields \X {"asc", "desc"} \X {NoCompare})
        \cup ({"NAME"} \X {"asc", "desc"} \X CustomCompares)

PageSizeTexts == {NatToStr(n) : n \in 1..MaxPageSize}

Next ==
    \/ \E d \in Datasets : setData(d) /\ UNCHANGED others
    \/ \E value \in NonArrays : setDataNonArray(value) /\ UNCHANGED others
    \/ \E term \in SearchTexts : setSearchTerm(term) /\ UNCHANGED others
    \/ \E call \in SortCalls : setSort(call[1], call[2], call[3]) /\ UNCHANGED others
    \/ \E page \in 0..MaxPageArg : goToPage(page) /\ UNCHANGED others
    \/ \E size \in PageSizeTexts : setPageSize(size) /\ UNCHANGED others
    \/ \E item \in Pool : toggleSelection(item[keyField]) /\ UNCHANGED others
    \/ \E shouldSelect \in BOOLEAN : toggleSelectAll(shouldSelect) /\ UNCHANGED others

Spec == Init /\ [][Next]_vars

\* the data path alone, over every search configuration
NextSearch ==
    \/ \E d \in Datasets : setData(d) /\ UNCHANGED others
    \/ \E term \in SearchTexts : setSearchTerm(term) /\ UNCHANGED others
    \/ \E call \in SortCalls : setSort(call[1], call[2], call[3]) /\ UNCHANGED others

SpecSearch == InitSearch /\ [][NextSearch]_vars

\* the Store of a component that is torn down: the same calls, and destroy
LifecycleSortCalls == {<< NullField, "null", NoCompare >>, << "NAME", "desc", NoCompare >>}

NextLifecycle ==
    \/ \E d \in Datasets : setData(d) /\ UNCHANGED others
    \/ \E value \in NonArrays : setDataNonArray(value) /\ UNCHANGED others
    \/ \E term \in SearchTexts : setSearchTerm(term) /\ UNCHANGED others
    \/ \E call \in LifecycleSortCalls : setSort(call[1], call[2], call[3]) /\ UNCHANGED others
    \/ \E page \in 0..MaxPageArg : goToPage(page) /\ UNCHANGED others
    \/ \E size \in PageSizeTexts : setPageSize(size) /\ UNCHANGED others
    \/ \E item \in Pool : toggleSelection(item[keyField]) /\ UNCHANGED others
    \/ \E shouldSelect \in BOOLEAN : toggleSelectAll(shouldSelect) /\ UNCHANGED others
    \/ destroy /\ UNCHANGED others

SpecLifecycle == Init /\ [][NextLifecycle]_vars

(***************************************************************************)
(* NestedAccordionRenderer: the grouping tree.  A JavaScript object is the *)
(* list of its own properties in enumeration order, and every value        *)
(* carries the tag of its type.                                            *)
(***************************************************************************)
TrueValue == [tag |-> "boolean", list |-> <<>>, entries |-> <<>>]
UndefinedProperty == [tag |-> "undefined", list |-> <<>>, entries |-> <<>>]
\* a method found on Object.prototype
InheritedFunction == [tag |-> "function", list |-> <<>>, entries |-> <<>>]
ArrayValue(list) == [tag |-> "array", list |-> list, entries |-> <<>>]
ObjectValue(entries) == [tag |-> "object", list |-> <<>>, entries |-> entries]
\* the call ended in a TypeError instead of returning
TypeError == [tag |-> "TypeError", list |-> <<>>, entries |-> <<>>]

IsLeafKey == << "_", "i", "s", "L", "e", "a", "f" >>
ItemsKey == << "i", "t", "e", "m", "s" >>
Outros == << "O", "u", "t", "r", "o", "s" >>
ConstructorKey == << "c", "o", "n", "s", "t", "r", "u", "c", "t", "o", "r" >>

\* names every object literal inherits from Object.prototype
PrototypeKeys == {ConstructorKey}

\* every canonical digit string of up to nine characters is an array index
\* (it is below 2^32 - 1); the keys of the model are shorter than that
MaxIndexDigits == 9

\* a property name that is a canonical array index: such names are
\* enumerated first, in ascending numeric order
IsArrayIndex(key) ==
    /\ Len(key) \in 1..MaxIndexDigits
    /\ \A i \in 1..Len(key) : IsDigit(key[i])
    /\ Len(key) = 1 \/ key[1] # "0"

HasOwn(entries, key) == \E i \in 1..Len(entries) : entries[i].k = key

\* object[key] = value on the own properties of an object
Put(entries, key, value) ==
    LET entry == [k |-> key, v |-> value]
    IN  IF HasOwn(entries, key)
        THEN [i \in 1..Len(entries) |-> IF entries[i].k = key THEN entry ELSE entries[i]]
        ELSE IF IsArrayIndex(key)
        THEN LET before == Cardinality({i \in 1..Len(entries) :
                                /\ IsArrayIndex(entries[i].k)
                                /\ DigitsToNat(entries[i].k) < DigitsToNat(key)})
             IN  SubSeq(entries, 1, before) \o << entry >> \o SubSeq(entries, before + 1, Len(entries))
        ELSE Append(entries, entry)

\* value[key]: an own property, else what the prototype chain gives
Get(value, key) ==
    IF value.tag = "object" /\ HasOwn(value.entries, key)
    THEN value.entries[CHOOSE i \in 1..Len(value.entries) : value.entries[i].k = key].v
    ELSE IF value.tag \in {"object", "array"} /\ key \in PrototypeKeys
    THEN InheritedFunction
    ELSE UndefinedProperty

TruthyValue(value) == value.tag \in {"boolean", "array", "object", "function"}

\* typeof value === 'object'
IsObject(value) == value.tag \in {"object", "array"}

\* Object.values(node)
Values(node) ==
    IF node.tag = "object"
    THEN [i \in 1..Len(node.entries) |-> node.entries[i].v]
    ELSE <<>>

\* Object.keys(node)
Keys(node) ==
    IF node.tag = "object"
    THEN [i \in 1..Len(node.entries) |-> node.entries[i].k]
    ELSE <<>>

\* getNestedValue(obj, path) for a path without dots
getNestedValue(obj, path) ==
    IF path \in DOMAIN obj THEN obj[path] ELSE UndefinedValue

\* the property name a record is grouped under:
\* getNestedValue(item, field) || 'Outros', coerced to a property name
GroupKey(item, field) ==
    LET value == getNestedValue(item, field)
    IN  IF Truthy(value) THEN ToStr(value) ELSE Outros

\* the data.forEach of groupByLevels over the object literal groups
RECURSIVE GroupItems(_, _, _)
GroupItems(d, field, groups) ==
    IF d = <<>> THEN ObjectValue(groups)
    ELSE LET key == GroupKey(d[1], field)
             withKey == IF TruthyValue(Get(ObjectValue(groups), key))
                        THEN groups
                        ELSE Put(groups, key, ArrayValue(<<>>))
             target == Get(ObjectValue(withKey), key)
         IN  IF target.tag # "array"
             THEN TypeError
             ELSE GroupItems(Tail(d), field,
                             Put(withKey, key, ArrayValue(Append(target.list, d[1]))))

RECURSIVE groupByLevels(_, _, _)
RECURSIVE GroupChildren(_, _, _, _)

\* the Object.keys(groups).forEach of groupByLevels
GroupChildren(groupEntries, levels, currentLevel, result) ==
    IF groupEntries = <<>> THEN ObjectValue(result)
    ELSE LET child == groupByLevels(groupEntries[1].v.list, levels, currentLevel + 1)
         IN  IF child = TypeError THEN TypeError
             ELSE GroupChildren(Tail(groupEntries), levels, currentLevel,
                                Put(result, groupEntries[1].k, child))

\* groupByLevels(data, levels, currentLevel)
groupByLevels(d, levels, currentLevel) ==
    IF currentLevel >= Len(levels)
    THEN ObjectValue(<< [k |-> IsLeafKey, v |-> TrueValue],
                        [k |-> ItemsKey, v |-> ArrayValue(d)] >>)
    ELSE LET groups == GroupItems(d, levels[currentLevel + 1], <<>>)
         IN  IF groups = TypeError THEN TypeError
             ELSE GroupChildren(groups.entries, levels, currentLevel, <<>>)

RECURSIVE countItems(_)
RECURSIVE SumCounts(_)

\* the reduce of countItems over Object.values(node)
SumCounts(values) ==
    IF values = <<>> THEN 0
    ELSE (IF /\ TruthyValue(values[1])
             /\ (TruthyValue(Get(values[1], IsLeafKey)) \/ IsObject(values[1]))
          THEN countItems(values[1])
          ELSE 0) + SumCounts(Tail(values))

\* countItems(node)
countItems(node) ==
    IF ~TruthyValue(node) THEN 0
    ELSE IF TruthyValue(Get(node, IsLeafKey))
    THEN IF Get(node, ItemsKey).tag = "array" THEN Len(Get(node, ItemsKey).list) ELSE 0
    ELSE IF ~IsObject(node) THEN 0
    ELSE SumCounts(Values(node))

RECURSIVE getItems(_)
RECURSIVE FlatMapItems(_)

\* Object.values(node).flatMap(subNode => this.getItems(subNode)): an array
\* returned by the callback is spliced in, anything else is one element
FlatMapItems(values) ==
    IF values = <<>> THEN <<>>
    ELSE LET found == getItems(values[1])
         IN  (IF found.tag = "array" THEN found.list ELSE << found >>)
                \o FlatMapItems(Tail(values))

\* getItems(node)
getItems(node) ==
    IF ~TruthyValue(node) THEN ArrayValue(<<>>)
    ELSE IF TruthyValue(Get(node, IsLeafKey))
    THEN IF TruthyValue(Get(node, ItemsKey)) THEN Get(node, ItemsKey) ELSE ArrayValue(<<>>)
    ELSE IF ~IsObject(node) THEN ArrayValue(<<>>)
    ELSE ArrayValue(FlatMapItems(Values(node)))

\* records grouped by state and year; a state or a year may be missing
GroupFields == {"ID", "ESTADO", "ANO"}

Joao == [ID |-> Num(101), ESTADO |-> Str(<< "S", "P" >>), ANO |-> Num(2024)]
Maria == [ID |-> Num(102), ESTADO |-> Str(<< "R", "J" >>), ANO |-> Num(2023)]
Roberto == [ID |-> Num(103), ESTADO |-> Str(<< "S", "P" >>), ANO |-> Num(2023)]
Lucas == [ID |-> Num(202), ESTADO |-> Null, ANO |-> Num(0)]
Paulo == [ID |-> Num(401), ESTADO |-> Str(Outros), ANO |-> Str(<< "2", "0", "2", "4" >>)]
Carlos == [ID |-> Num(301), ESTADO |-> Str(ConstructorKey), ANO |-> Num(2024)]
Juliana == [ID |-> Num(402), ESTADO |-> Str(IsLeafKey), ANO |-> Num(2023)]

GroupPool == {Joao, Maria, Roberto, Lucas, Paulo, Carlos, Juliana}

\* the record lists handed to groupByLevels
GroupDatasets ==
    UNION {{d \in [1..n -> GroupPool] : \A i, j \in 1..n : i # j => d[i] # d[j]} : n \in 0..MaxRows}

\* config.levels
LevelChoices ==
    {<<>>, << "ESTADO" >>, << "ANO" >>, << "ESTADO", "ANO" >>, << "ANO", "ESTADO" >>}

InitGroup ==
    /\ constructor(DefaultConfig)
    /\ gRecords \in GroupDatasets
    /\ gLevels \in LevelChoices
    /\ gTree = NotGrouped
    /\ NoAccordion
    /\ NoTable

\* one call groupByLevels(data, levels, 0), as render makes it
callGroupByLevels ==
    /\ gTree = NotGrouped
    /\ gTree' = groupByLevels(gRecords, gLevels, 0)
    /\ UNCHANGED << gRecords, gLevels, storeVars, accordionVars, tableVars >>

NextGroup == callGroupByLevels

SpecGroup == InitGroup /\ [][NextGroup]_vars

(***************************************************************************)
(* NestedAccordionRenderer: rendering, group pagination and expansion.     *)
(* A uniqueId `${parentId}_${level}_${index}` is the sequence of the       *)
(* levels and indexes it is built from; the container id is <<>>.          *)
(***************************************************************************)
\* the keys render pages over
TopLevelKeys(groupedData) ==
    SelectSeq(Keys(groupedData), LAMBDA key : key # IsLeafKey /\ key # ItemsKey)

\* render: totalItems, totalPages and the reset of a cursor past the last page
Repaginate(pag, allKeys) ==
    LET totalPages == TotalPagesOf(Len(allKeys), pag.pageSize)
    IN  [pag EXCEPT !.totalItems = Len(allKeys),
                    !.totalPages = totalPages,
                    !.currentPage = IF @ > totalPages THEN 1 ELSE @]

\* render: keysToRender
KeysToRender(pag, allKeys) ==
    IF pag.enabled
    THEN LET start == (pag.currentPage - 1) * pag.pageSize
         IN  Slice(allKeys, start, start + pag.pageSize)
    ELSE allKeys

\* render: keysToRender.forEach(key => pagedGroupedData[key] = groupedData[key])
RECURSIVE PagedGroupedData(_, _, _)
PagedGroupedData(keysToRender, groupedData, paged) ==
    IF keysToRender = <<>> THEN ObjectValue(paged)
    ELSE PagedGroupedData(Tail(keysToRender), groupedData,
            Put(paged, keysToRender[1], Get(groupedData, keysToRender[1])))

\* renderLevel(node, level, parentId): the cards it writes, each with the
\* items it registers in _groupItemsMap; path is the chain of group keys
RECURSIVE renderLevel(_, _, _, _, _)
renderLevel(node, level, parentId, path, expanded) ==
    IF node.tag # "object" THEN {}
    ELSE UNION {
        LET key == node.entries[i].k
            childNode == node.entries[i].v
            uniqueId == parentId \o << level, i - 1 >>
            isLeaf == Get(childNode, IsLeafKey) = TrueValue
        IN  IF key = IsLeafKey \/ key = ItemsKey THEN {}
            ELSE {[id |-> uniqueId,
                   keys |-> Append(path, key),
                   items |-> getItems(childNode).list,
                   isLeaf |-> isLeaf,
                   expanded |-> uniqueId \in expanded]}
                 \cup (IF isLeaf THEN {}
                       ELSE renderLevel(childNode, level + 1, uniqueId, Append(path, key), expanded))
        : i \in 1..Len(node.entries)}

RootId == << "root" >>

\* a renderLeaf that passes no externalSelectedIds: the Store of the leaf
\* table makes a selection set of its own
renderLeafOwnSet(items, leafId) ==
    [id |-> leafId, data |-> items, external |-> FALSE, own |-> {}]

\* renderLeaf of BasicNestedAccordionRenderer: a leaf table whose Store gets
\* the accordion Store's selection set as externalSelectedIds
renderLeaf(items, leafId) ==
    [id |-> leafId, data |-> items, external |-> TRUE, own |-> {}]

\* initLeafComponents: one leaf table per leaf card
initLeafComponents(rendered) ==
    {renderLeaf(card.items, card.id) : card \in {c \in rendered : c.isLeaf}}

\* config.levels of the accordions whose pagination and expansion are explored
AccordionLevelChoices == {<< "NAME" >>, << "ATIVO" >>}

\* config.levels of the accordions whose selection is explored: nested groups
NestedLevelChoices == {<< "ATIVO", "NAME" >>}

\* groupByLevels(activeData, this.levels, 0) over the views of the Store and
\* the level configurations, computed once
GroupedTable ==
    [view \in Datasets, levels \in AccordionLevelChoices \cup NestedLevelChoices |->
        groupByLevels(view, levels, 0)]

\* render, the last step: the cards written by renderLevel and the leaf
\* tables initLeafComponents creates in them
renderContent(newPag, rendered) ==
    [pagination |-> newPag, cards |-> rendered, leafTables |-> initLeafComponents(rendered)]

\* render, once the pagination is updated: the tree that is a single leaf is
\* one table under the id 'root', any other tree is the page of its groups
renderPage(groupedData, allKeys, newPag, expanded) ==
    IF TruthyValue(Get(groupedData, IsLeafKey))
    THEN [pagination |-> newPag, cards |-> {},
          leafTables |-> {renderLeaf(Get(groupedData, ItemsKey).list, RootId)}]
    ELSE renderContent(newPag,
            renderLevel(PagedGroupedData(KeysToRender(newPag, allKeys), groupedData, <<>>),
                        0, <<>>, <<>>, expanded))

\* render, once the data is grouped: allKeys, then the pagination
renderGroups(groupedData, allKeys, pag, expanded) ==
    renderPage(groupedData, allKeys, Repaginate(pag, allKeys), expanded)

\* render(): the pagination, the cards and the leaf tables it leaves behind;
\* the empty state returns before the pagination is touched
render(view, levels, pag, expanded, loaded) ==
    IF ~loaded \/ Len(view) = 0
    THEN [pagination |-> pag, cards |-> {}, leafTables |-> {}]
    ELSE renderGroups(GroupedTable[view, levels], TopLevelKeys(GroupedTable[view, levels]),
                      pag, expanded)

\* what a call of render() leaves in the accordion
Draw(drawn) ==
    /\ accordionPagination' = drawn.pagination
    /\ cards' = drawn.cards
    /\ leafTables' = drawn.leafTables
    /\ renders' = 1

\* the accordion's part of an operation that calls render() once
Rerender(view, pag, loaded) ==
    Draw(render(view, accordionLevels, pag, expandedGroups, loaded))

\* onDataChange: (state) => { this.render(); } after an operation of the Store
onDataChangeRender(loaded) ==
    /\ IF notified' = 1
       THEN Rerender(filteredData', accordionPagination, loaded)
       ELSE /\ UNCHANGED << accordionPagination, cards, leafTables >>
            /\ renders' = 0
    /\ visualUpdates' = 0
    /\ leafUpdates' = [rendered |-> 0, visuals |-> 0]
    /\ UNCHANGED << accordionLevels, expandedGroups >>

\* an operation of the accordion that leaves its Store as it is
StoreUntouched(op) ==
    /\ lastOp' = op
    /\ notified' = 0
    /\ selNotified' = 0
    /\ UNCHANGED << data, filteredData, searchTerm, sortConfig, pagination,
                    searchFields, hiddenColumns >>
    /\ Completes

\* the accordion's own Store: no pagination, no onSelectionChange
AccordionConfig == [searchFields |-> <<>>, hidden |-> {}, onSelectionChange |-> FALSE]

\* new NestedAccordionRenderer(config) without config.data
newAccordion(levelChoices) ==
    /\ constructor(AccordionConfig)
    /\ pagination.pageSize = 1
    /\ NoGrouping
    /\ NoTable
    /\ accordionLevels \in levelChoices
    /\ \E size \in 1..MaxPageSize :
        accordionPagination = [enabled |-> TRUE, currentPage |-> 1, pageSize |-> size,
                               totalItems |-> 0, totalPages |-> 0]
    /\ hasDataLoaded = FALSE
    /\ expandedGroups = {}
    /\ cards = {}
    /\ leafTables = {}
    /\ renders = 0
    /\ visualUpdates = 0
    /\ leafUpdates = [rendered |-> 0, visuals |-> 0]

InitAccordion == newAccordion(AccordionLevelChoices)

\* NestedAccordionRenderer.setData(data) with an array
accordionSetData(d) ==
    /\ hasDataLoaded' = TRUE
    /\ setData(d)
    /\ onDataChangeRender(TRUE)
    /\ UNCHANGED << groupVars, tableVars >>

\* the search box of the accordion: dataController.setSearchTerm(this.value)
accordionSearch(term) ==
    /\ setSearchTerm(term)
    /\ onDataChangeRender(hasDataLoaded)
    /\ UNCHANGED << hasDataLoaded, groupVars, tableVars >>

\* dataController.setSort on the accordion's Store
accordionSort(field, direction) ==
    /\ setSort(field, direction, NoCompare)
    /\ onDataChangeRender(hasDataLoaded)
    /\ UNCHANGED << hasDataLoaded, groupVars, tableVars >>

\* the goToPage the constructor puts on the accordion's Store
accordionGoToPage(page) ==
    /\ StoreUntouched("accordion.goToPage")
    /\ Rerender(filteredData, [accordionPagination EXCEPT !.currentPage = page], hasDataLoaded)
    /\ visualUpdates' = 0
    /\ leafUpdates' = [rendered |-> 0, visuals |-> 0]
    /\ UNCHANGED << selectedIds, accordionLevels, hasDataLoaded, expandedGroups, groupVars, tableVars >>

\* the setPageSize the constructor puts on the accordion's Store; size is the
\* digit string of the selector and Number(size) its value
accordionSetPageSize(size) ==
    /\ StoreUntouched("accordion.setPageSize")
    /\ Rerender(filteredData,
                [accordionPagination EXCEPT !.pageSize = DigitsToNat(size), !.currentPage = 1],
                hasDataLoaded)
    /\ visualUpdates' = 0
    /\ leafUpdates' = [rendered |-> 0, visuals |-> 0]
    /\ UNCHANGED << selectedIds, accordionLevels, hasDataLoaded, expandedGroups, groupVars, tableVars >>

\* toggle(uniqueId): a click on the header of a card that is in the DOM
toggle(uniqueId) ==
    /\ \E card \in cards : card.id = uniqueId
    /\ LET card == CHOOSE c \in cards : c.id = uniqueId
       IN  /\ expandedGroups' = IF card.expanded
                                THEN expandedGroups \ {uniqueId}
                                ELSE expandedGroups \cup {uniqueId}
           /\ cards' = (cards \ {card}) \cup {[card EXCEPT !.expanded = ~card.expanded]}
    /\ StoreUntouched("accordion.toggle")
    /\ renders' = 0
    /\ visualUpdates' = 0
    /\ leafUpdates' = [rendered |-> 0, visuals |-> 0]
    /\ UNCHANGED << selectedIds, accordionLevels, accordionPagination, hasDataLoaded,
                    leafTables, groupVars, tableVars >>

\* the datasets handed to the accordion
AccordionDatasets == {<< Ana, Bo, ana >>, <<>>}

\* the sort calls made on the accordion's Store
AccordionSortCalls == {<< NullField, "null" >>, << "NAME", "desc" >>}

\* the pages asked of the accordion: the previous-page link of page 1 asks
\* for 0, the next-page link asks for one more
AccordionPages == 0..MaxRows

\* the uniqueIds a click can carry: those of the cards in the DOM
RenderedIds == {card.id : card \in cards}

NextAccordion ==
    \/ \E d \in AccordionDatasets : accordionSetData(d)
    \/ \E term \in SearchTexts : accordionSearch(term)
    \/ \E call \in AccordionSortCalls : accordionSort(call[1], call[2])
    \/ \E page \in AccordionPages : accordionGoToPage(page)
    \/ \E size \in PageSizeTexts : accordionSetPageSize(size)
    \/ \E uniqueId \in RenderedIds : toggle(uniqueId)

SpecAccordion == InitAccordion /\ [][NextAccordion]_vars

(***************************************************************************)
(* Selection in the accordion: the group checkbox and the leaf tables,     *)
(* whose Stores are built on the selection set of the accordion's Store.   *)
(***************************************************************************)
\* this._groupItemsMap.get(uniqueId) of a rendered group
groupItemsMap(uniqueId) == (CHOOSE card \in cards : card.id = uniqueId).items

\* the forEach of SelectionPlugin.toggleGroupSelection over the keys of the items
ToggleAll(ids, chosen) == IF ids \subseteq chosen THEN chosen \ ids ELSE chosen \cup ids

\* NestedAccordionRenderer.updateSelectionVisuals: the header checkboxes,
\* then updateSelectionVisuals of every leaf table in the DOM
updateSelectionVisuals ==
    /\ visualUpdates' = 1
    /\ renders' = 0

\* a group toggle that only ever selects
toggleGroupSelectionAddOnly(uniqueId) ==
    /\ uniqueId \in RenderedIds
    /\ Len(groupItemsMap(uniqueId)) > 0
    /\ selectedIds' = selectedIds \cup AllIds(groupItemsMap(uniqueId))
    /\ updateSelectionVisuals
    /\ leafUpdates' = [rendered |-> 0, visuals |-> IF leafTables = {} THEN 0 ELSE 1]
    /\ StoreUntouched("accordion.toggleGroupSelection")
    /\ UNCHANGED << accordionLevels, accordionPagination, hasDataLoaded, expandedGroups,
                    cards, leafTables, groupVars, tableVars >>

\* toggleGroupSelection(uniqueId): the click on the checkbox of a group
toggleGroupSelection(uniqueId) ==
    /\ uniqueId \in RenderedIds
    /\ Len(groupItemsMap(uniqueId)) > 0
    /\ selectedIds' = ToggleAll(AllIds(groupItemsMap(uniqueId)), selectedIds)
    /\ updateSelectionVisuals
    /\ leafUpdates' = [rendered |-> 0, visuals |-> IF leafTables = {} THEN 0 ELSE 1]
    /\ StoreUntouched("accordion.toggleGroupSelection")
    /\ UNCHANGED << accordionLevels, accordionPagination, hasDataLoaded, expandedGroups,
                    cards, leafTables, groupVars, tableVars >>

\* this.selectedIds of the Store of a leaf table
SelectedIdsOf(leaf) == IF leaf.external THEN selectedIds ELSE leaf.own

\* a write of the Store of a leaf table to its this.selectedIds
WriteSelectedIds(leaf, chosen) ==
    IF leaf.external
    THEN /\ selectedIds' = chosen
         /\ leafTables' = leafTables
    ELSE /\ selectedIds' = selectedIds
         /\ leafTables' = (leafTables \ {leaf}) \cup {[leaf EXCEPT !.own = chosen]}

\* onSelectionChange of a leaf table: its own updateSelectionVisuals, then
\* config.onSelectionChange, which runs the accordion's
leafOnSelectionChange(op, rerendered) ==
    /\ leafUpdates' = [rendered |-> rerendered, visuals |-> 1]
    /\ updateSelectionVisuals
    /\ StoreUntouched(op)
    /\ UNCHANGED << accordionLevels, accordionPagination, hasDataLoaded, expandedGroups,
                    cards, groupVars, tableVars >>

\* toggleSelection(id) of the Store of a leaf table: the checkbox of a row
leafToggleSelection(leaf, id) ==
    /\ leaf \in leafTables
    /\ WriteSelectedIds(leaf, ToggleAll({ToStr(id)}, SelectedIdsOf(leaf)))
    /\ leafOnSelectionChange("leaf.toggleSelection", 0)

\* toggleSelectAll(shouldSelect) of the Store of a leaf table: the checkbox
\* of its header; its notifyChange re-renders the leaf table alone
leafToggleSelectAll(leaf, shouldSelect) ==
    /\ leaf \in leafTables
    /\ WriteSelectedIds(leaf, IF shouldSelect
                              THEN SelectedIdsOf(leaf) \cup AllIds(leaf.data)
                              ELSE SelectedIdsOf(leaf) \ AllIds(leaf.data))
    /\ leafOnSelectionChange("leaf.toggleSelectAll", 1)

\* the key values of the rows of a leaf table
RowIds(leaf) == {leaf.data[i][keyField] : i \in 1..Len(leaf.data)}

InitSelection == newAccordion(NestedLevelChoices)

NextSelection ==
    \/ \E d \in AccordionDatasets : accordionSetData(d)
    \/ \E term \in SearchTexts : accordionSearch(term)
    \/ \E uniqueId \in RenderedIds : toggleGroupSelection(uniqueId)
    \/ \E leaf \in leafTables : \E id \in RowIds(leaf) : leafToggleSelection(leaf, id)
    \/ \E leaf \in leafTables : \E shouldSelect \in BOOLEAN : leafToggleSelectAll(leaf, shouldSelect)

SpecSelection == InitSelection /\ [][NextSelection]_vars

(***************************************************************************)
(* ColumnWidthUtils: the pixel width of every column of a table, from the  *)
(* column definitions, a sample of the rows and the width of the window.   *)
(***************************************************************************)
\* the most columns of a table
MaxColumns == 3

SAMPLING_LIMIT == 100
FONT_AVG_WIDTH == 10
PADDING_X == 20
SAFETY_BUFFER == 12
\* HEADER_CHAR_WIDTH is 8.5 pixels: kept in halves of a pixel
HEADER_CHAR_WIDTH_X2 == 17
HEADER_BASE_PADDING == 40
HEADER_SORT_ICON_SPACE == 25
HEADER_SAFETY_MARGIN == 15
LOCKED_FIELDS == {"actions", "checkbox", "selected", "selector"}
LOCKED_TYPES == {"actions", "checkbox", "selection", "settings"}

Preset(min, max) == [min |-> min, max |-> max]

FIELD_PRESETS ==
    [CIDADE |-> Preset(120, 180), MUNICIPIO |-> Preset(120, 180),
     ESTADO |-> Preset(60, 90), UF |-> Preset(60, 90),
     ENDERECO |-> Preset(200, 300), LOGRADOURO |-> Preset(200, 300),
     RUA |-> Preset(180, 280), BAIRRO |-> Preset(120, 180),
     NOME |-> Preset(140, 220), NOME_FUNCIONARIO |-> Preset(140, 220),
     NOME_CARTAO |-> Preset(140, 200), RAZAO_SOCIAL |-> Preset(160, 240),
     EMAIL |-> Preset(150, 240), TELEFONE |-> Preset(120, 150),
     CELULAR |-> Preset(120, 150), CPF |-> Preset(120, 140),
     CNPJ |-> Preset(150, 180), CEP |-> Preset(90, 110),
     REFERENCIA |-> Preset(100, 140), CARTAO |-> Preset(160, 220),
     NRO_CARTAO |-> Preset(160, 220), DEPARTAMENTO |-> Preset(120, 220),
     STATUS |-> Preset(100, 140), MOSTRA_STATUS |-> Preset(100, 140),
     DESCRICAO_STATUS |-> Preset(120, 160), SITUACAO |-> Preset(100, 140),
     VALOR |-> Preset(110, 160), SALDO |-> Preset(110, 160),
     SALDO_ATUAL |-> Preset(130, 180), LIMITE |-> Preset(110, 160),
     MOSTRA_LIMITE |-> Preset(130, 180), TOTAL |-> Preset(110, 160)]

TYPE_PRESETS ==
    [currency |-> Preset(100, 140), date |-> Preset(100, 130),
     datetime |-> Preset(140, 180), badge |-> Preset(100, 140),
     boolean_icon |-> Preset(60, 90), toggle |-> Preset(70, 90),
     phone |-> Preset(120, 150), state |-> Preset(60, 80),
     cep |-> Preset(90, 110), code |-> Preset(80, 120),
     text |-> Preset(100, 250)]

\* Math.max and Math.min of two numbers
MathMax(a, b) == IF a > b THEN a ELSE b
MathMin(a, b) == IF a < b THEN a ELSE b

\* a string of n characters
Chars(n) == [i \in 1..n |-> "a"]

\* a column definition: a missing type is "undefined", a missing title the
\* empty string, a missing width undefined
Column(field, type, title, width) ==
    [field |-> field, type |-> type, title |-> title, width |-> width]

\* the columns tables are built from
ColumnPool ==
    { Column("nome", "undefined", << "N", "o", "m", "e" >>, UndefinedValue),
      Column("UF", "state", << "U", "F" >>, UndefinedValue),
      Column("OBS", "text", Chars(21), Null),
      Column("SALDO", "currency", <<>>, Str(<< "a", "u", "t", "o" >>)),
      Column("FLAG", "state", <<>>, UndefinedValue),
      Column("checkbox", "undefined", <<>>, UndefinedValue),
      Column("COD", "code", Chars(6), Str(<< "6", "0", "p", "x" >>)),
      Column("REF", "undefined", Chars(3), Str(<< "1", "5", "0", "p", "x" >>)),
      Column("QTD", "undefined", Chars(3), Num(150)) }

\* the column lists of a table: no field twice
ColumnLists ==
    { cols \in UNION { [1..n -> ColumnPool] : n \in 0..MaxColumns } :
        \A i, j \in 1..Len(cols) : cols[i].field = cols[j].field => i = j }

\* the rows the widths are sampled from
ShortRow ==
    [nome |-> Str(<< "A", "n", "a" >>), UF |-> Str(<< "S", "P" >>), OBS |-> Null,
     SALDO |-> Num(5), FLAG |-> Bool(TRUE)]
LongRow ==
    [nome |-> Str(Chars(25)), UF |-> Str(Chars(9)), OBS |-> Str(Chars(30)),
     SALDO |-> Num(1234567), FLAG |-> Bool(FALSE)]
WidthDatasets == { <<>>, << ShortRow >>, << LongRow >>, << ShortRow, LongRow >> }

\* window.innerWidth; 0 where the window has no width yet
Viewports == {0, 400, 1920}

\* the inline row actions of a table
InlineActions == 0..1

\* row[col.field]
RowGet(row, field) == IF field \in DOMAIN row THEN row[field] ELSE UndefinedValue

\* Map.prototype.set
MapSet(map, key, value) ==
    [k \in DOMAIN map \cup {key} |-> IF k = key THEN value ELSE map[k]]

\* String.prototype.toUpperCase on the field names of the columns
toUpperCase(field) == IF field = "nome" THEN "NOME" ELSE field

\* ColumnWidthUtils._isLocked(col)
_isLocked(col) ==
    \/ col.field \in LOCKED_FIELDS
    \/ col.type # "undefined" /\ col.type \in LOCKED_TYPES

\* ColumnWidthUtils._calculateMinHeaderWidth(headerTitle): Math.ceil of a
\* number of half pixels
_calculateMinHeaderWidth(headerTitle) ==
    IF headerTitle = <<>> THEN 80
    ELSE (Len(headerTitle) * HEADER_CHAR_WIDTH_X2
          + 2 * (HEADER_BASE_PADDING + HEADER_SORT_ICON_SPACE + HEADER_SAFETY_MARGIN)
          + 1) \div 2

\* the width of the actions column: no override, inline actions, no dropdown
actionsWidth(inlineCount) ==
    IF inlineCount > 0 THEN MathMax(300, MathMin(60 + inlineCount * 65, 600)) ELSE 0

\* FIELD_PRESETS[fieldUpper] || TYPE_PRESETS[col.type?.toLowerCase()] || TYPE_PRESETS['text']
presetOf(col) ==
    IF toUpperCase(col.field) \in DOMAIN FIELD_PRESETS THEN FIELD_PRESETS[toUpperCase(col.field)]
    ELSE IF col.type \in DOMAIN TYPE_PRESETS THEN TYPE_PRESETS[col.type]
    ELSE TYPE_PRESETS["text"]

\* the longest String(val) of the column over the sample, null and undefined skipped
maxContentChars(field, sampleData) ==
    LET lengths == {0} \cup { Len(ToStr(RowGet(sampleData[i], field))) :
                              i \in { j \in 1..Len(sampleData) :
                                        RowGet(sampleData[j], field).t \notin {"null", "undefined"} } }
    IN  CHOOSE n \in lengths : \A m \in lengths : m <= n

contentPx(chars) == chars * FONT_AVG_WIDTH + PADDING_X + SAFETY_BUFFER

\* the content width held by the maximum of the preset only
clampedContentPxNoMin(col, sampleData) ==
    MathMin(contentPx(maxContentChars(col.field, sampleData)), presetOf(col).max)

\* Math.max(preset.min, Math.min(contentPx, preset.max))
clampedContentPx(col, sampleData) ==
    MathMax(presetOf(col).min,
            MathMin(contentPx(maxContentChars(col.field, sampleData)), presetOf(col).max))

\* minHeaderRequired of a column without a configured width
minHeaderRequired(col) ==
    IF col.title # <<>> THEN _calculateMinHeaderWidth(col.title) ELSE 0

\* Math.round(Math.max(clampedContentPx, minHeaderRequired)): a whole number already
roundedPx(col, sampleData) ==
    MathMax(clampedContentPx(col, sampleData), minHeaderRequired(col))

\* !col.type || ['text', 'string'].includes(col.type)
isTextType(col) == col.type = "undefined" \/ col.type \in {"text", "string"}

\* parseInt(col.width, 10)
configPx(col) == IF col.width.t = "num" THEN Number(col.width.n) ELSE ParseInt(col.width.s)

\* forEach body, a locked column: no width, 40 pixels in the total
lockedWidth(col, acc) ==
    [acc EXCEPT !.map = MapSet(@, col.field, Null), !.total = @ + 40]

\* forEach body, a column with a configured width
explicitWidth(col, acc) ==
    IF ~configPx(col).nan /\ col.title # <<>>
       /\ configPx(col).v < _calculateMinHeaderWidth(col.title)
    THEN [acc EXCEPT !.map = MapSet(@, col.field, Num(_calculateMinHeaderWidth(col.title))),
                     !.total = @ + _calculateMinHeaderWidth(col.title)]
    ELSE [acc EXCEPT !.map = MapSet(@, col.field, col.width),
                     !.total = @ + (IF configPx(col).nan THEN 0 ELSE configPx(col).v)]

\* forEach body, a column sized from its preset, its content and its header
autoWidth(col, sampleData, acc) ==
    [map |-> MapSet(acc.map, col.field, Num(roundedPx(col, sampleData))),
     longestColField |->
         IF isTextType(col) /\ clampedContentPx(col, sampleData) > acc.maxCalculatedWidth
         THEN col.field ELSE acc.longestColField,
     maxCalculatedWidth |->
         IF isTextType(col) /\ clampedContentPx(col, sampleData) > acc.maxCalculatedWidth
         THEN clampedContentPx(col, sampleData) ELSE acc.maxCalculatedWidth,
     total |-> acc.total + roundedPx(col, sampleData)]

\* the body of columns.forEach in computeAutoWidths
sizeColumn(col, sampleData, acc) ==
    IF _isLocked(col) THEN lockedWidth(col, acc)
    ELSE IF Truthy(col.width) /\ col.width # Str(<< "a", "u", "t", "o" >>)
    THEN explicitWidth(col, acc)
    ELSE autoWidth(col, sampleData, acc)

RECURSIVE sizeColumns(_, _, _)
sizeColumns(columns, sampleData, acc) ==
    IF columns = <<>> THEN acc
    ELSE sizeColumns(Tail(columns), sampleData, sizeColumn(Head(columns), sampleData, acc))

\* w > maxW with a number on the right: a string that is not a number is NaN
GreaterThan(w, maxW) ==
    CASE w.t = "num" -> w.n > maxW
      [] w.t = "str" /\ w.s # <<>> /\ DigitPrefixLen(w.s) = Len(w.s) -> DigitsToNat(w.s) > maxW
      [] OTHER -> FALSE

\* the fallback of the election: the first non-locked column of the greatest width
RECURSIVE widestColumn(_, _, _, _)
widestColumn(columns, map, maxW, longestColField) ==
    IF columns = <<>> THEN longestColField
    ELSE IF /\ ~_isLocked(Head(columns))
            /\ Head(columns).field \in DOMAIN map
            /\ GreaterThan(map[Head(columns).field], maxW)
    THEN widestColumn(Tail(columns), map,
                      IF map[Head(columns).field].t = "num" THEN map[Head(columns).field].n
                      ELSE DigitsToNat(map[Head(columns).field].s),
                      Head(columns).field)
    ELSE widestColumn(Tail(columns), map, maxW, longestColField)

\* widthMap.set(longestColField, null), when there is such a column
setHero(map, longestColField) ==
    IF longestColField # NullField /\ longestColField \in DOMAIN map
    THEN MapSet(map, longestColField, Null)
    ELSE map

\* the election of the flexible column once every column has a width
electHero(columns, acc, viewportWidth) ==
    IF acc.total < viewportWidth - 60
    THEN setHero(acc.map,
                 IF acc.longestColField = NullField
                 THEN widestColumn(columns, acc.map, 0, NullField)
                 ELSE acc.longestColField)
    ELSE acc.map

\* the widths before the election: the actions column, then every column
sizedColumns(columns, rows, inlineCount) ==
    sizeColumns(columns, Slice(rows, 0, MathMin(Len(rows), SAMPLING_LIMIT)),
                [map |-> MapSet(<<>>, "actions", Num(actionsWidth(inlineCount))),
                 longestColField |-> NullField,
                 maxCalculatedWidth |-> 0,
                 total |-> actionsWidth(inlineCount)])

\* ColumnWidthUtils.computeAutoWidths(columns, data, ...) without a cache
computeAutoWidths(columns, rows, inlineCount, innerWidth) ==
    electHero(columns, sizedColumns(columns, rows, inlineCount),
              IF innerWidth = 0 THEN 1920 ELSE innerWidth)

\* the arguments of one call
InitWidths ==
    /\ wColumns \in ColumnLists
    /\ wData \in WidthDatasets
    /\ wViewport \in Viewports
    /\ widthMap = <<>>
    /\ constructor(DefaultConfig)
    /\ NoTableBut({"widths"})
    /\ NoGrouping
    /\ NoAccordion

\* the call
callComputeAutoWidths(inlineCount) ==
    /\ widthMap = <<>>
    /\ widthMap' = computeAutoWidths(wColumns, wData, inlineCount, wViewport)
    /\ UNCHANGED << wColumns, wData, wViewport, sortState, cacheVars, compareVars, hookVars,
                    columnVars, registry, storeVars, groupVars, accordionVars >>

NextWidths == \E inlineCount \in InlineActions : callComputeAutoWidths(inlineCount)

SpecWidths == InitWidths /\ [][NextWidths]_vars

(***************************************************************************)
(* TableRenderer: the sort the column headers display and ask of the Store.*)
(***************************************************************************)
\* the comparator handleSort hands to setSort
TableCompare == "compare"

\* new TableRenderer(config): its Store and this.sortState
newTable ==
    /\ constructor(DefaultConfig)
    /\ sortState = [field |-> NullField, direction |-> "asc"]
    /\ NoCache
    /\ NoTableBut({"sort", "cache"})
    /\ NoGrouping
    /\ NoAccordion

\* the arrays a caller holds: two arrays may have the same rows, and the rows
\* of an array may change between two calls
MaxArrays == 2
DatasetRefs == 1..MaxArrays

\* this.columns of the table
TableColumns ==
    << Column("NAME", "text", << "N", "a", "m", "e" >>, UndefinedValue),
       Column("AMT", "currency", << "A", "m", "o", "u", "n", "t" >>, UndefinedValue) >>

\* _calculateColumnWidths: computeAutoWidths with this._widthCache and the
\* key (persistenceKey || containerId) + ':widths'
_calculateColumnWidths(cache, ref, fullData) ==
    IF cache # <<>> THEN cache
    ELSE [ref |-> ref, map |-> computeAutoWidths(TableColumns, fullData, 0, 0)]

\* updateTable(state), the render onDataChange asks for: nothing is sized in
\* the empty state
updateTable(cache) ==
    IF notified' = 0 \/ Len(getCurrentPageData(TRUE)') = 0
    THEN /\ widthCache' = cache
         /\ usedWidths' = <<>>
    ELSE /\ widthCache' = _calculateColumnWidths(cache, dataRef', data')
         /\ usedWidths' = _calculateColumnWidths(cache, dataRef', data')

\* a setData that keeps the width cache whatever array it is handed
tableSetDataKeepCache(ref, d) ==
    /\ lastDatasetRef' = ref
    /\ dataRef' = ref
    /\ setData(d)
    /\ updateTable(widthCache)
    /\ UNCHANGED << sortState, tableRest, groupVars, accordionVars >>

\* TableRenderer.setData(data) with the array ref, whose rows are d
tableSetData(ref, d) ==
    /\ lastDatasetRef' = ref
    /\ dataRef' = ref
    /\ setData(d)
    /\ updateTable(IF lastDatasetRef # ref THEN <<>> ELSE widthCache)
    /\ UNCHANGED << sortState, tableRest, groupVars, accordionVars >>

\* handleSort: the direction a click on the header of field asks for
newDirection(field) ==
    IF sortState.field = field
    THEN (IF sortState.direction = "asc" THEN "desc"
          ELSE IF sortState.direction = "desc" THEN "null"
          ELSE "asc")
    ELSE "asc"

\* a handleSort that flips between ascending and descending only
handleSortTwoState(field) ==
    /\ IF sortState.field = field /\ sortState.direction = "asc"
       THEN /\ sortState' = [field |-> field, direction |-> "desc"]
            /\ setSort(field, "desc", TableCompare)
       ELSE /\ sortState' = [field |-> field, direction |-> "asc"]
            /\ setSort(field, "asc", TableCompare)
    /\ updateTable(widthCache)
    /\ UNCHANGED << dataRef, lastDatasetRef, tableRest, groupVars, accordionVars >>

\* handleSort(field): a click on the header of a sortable column
handleSort(field) ==
    /\ IF newDirection(field) = "null"
       THEN /\ sortState' = [field |-> NullField, direction |-> "asc"]
            /\ setSort(NullField, "null", NoCompare)
       ELSE /\ sortState' = [field |-> field, direction |-> newDirection(field)]
            /\ setSort(field, newDirection(field), TableCompare)
    /\ updateTable(widthCache)
    /\ UNCHANGED << dataRef, lastDatasetRef, tableRest, groupVars, accordionVars >>

InitTable == newTable

NextTable ==
    \/ \E ref \in DatasetRefs, d \in Datasets : tableSetData(ref, d)
    \/ \E field \in SortFields : handleSort(field)

SpecTable == InitTable /\ [][NextTable]_vars

(***************************************************************************)
(* The comparator of the sort, on its own: one comparison of two values.   *)
(***************************************************************************)
\* the values of the sorted field in two records
CompareValues ==
    { Str(<< "-", "5" >>), Str(<< "-", "5", "0" >>), Str(<< "5", "-", "3" >>),
      Str(<< "R", "$", " ", "-", "5" >>), Str(<< "7" >>), Str(<< "-" >>),
      Str(<< "a", "b" >>), Num(-7), Num(2), Null }

\* a record holding val in the sorted field
RecordOf(val) == [f \in Fields |-> val]

InitCompare ==
    /\ cmpArgs \in [a : CompareValues, b : CompareValues, direction : {"asc", "desc"}]
    /\ cmpResult = <<>>
    /\ constructor(DefaultConfig)
    /\ NoTableBut({"compare"})
    /\ NoGrouping
    /\ NoAccordion

\* result.sort((a, b) => ...) comparing two records
compare ==
    /\ cmpResult = <<>>
    /\ cmpResult' = << DefaultCompare(RecordOf(cmpArgs.a), RecordOf(cmpArgs.b),
                                      "NAME", cmpArgs.direction) >>
    /\ UNCHANGED << cmpArgs, sortState, cacheVars, widthVars, hookVars, columnVars, registry,
                    storeVars, groupVars, accordionVars >>

NextCompare == compare

SpecCompare == InitCompare /\ [][NextCompare]_vars

(***************************************************************************)
(* RendererUtils.initPlugins and RendererUtils.runHook: the plugins of a   *)
(* host and the hooks the host runs on them.                               *)
(***************************************************************************)
\* the most plugins of a host
MaxPlugins == 3

\* plugin.init and the hooks the hosts run
HookNames == {"init", "onInit", "beforeRender"}

\* a null entry of the plugin list
NullPlugin == [defines |-> "nothing", does |-> "nothing"]

\* a plugin holds one property among the hook names: a function that returns,
\* a function that throws, or a value that is not a function
PluginPool ==
    {NullPlugin} \cup [defines : HookNames, does : {"returns", "throws", "not a function"}]

\* config.plugins that is not an array
NotAnArray == << [defines |-> "not an array", does |-> "nothing"] >>

PluginLists == UNION { [1..n -> PluginPool] : n \in 0..MaxPlugins } \cup {NotAnArray}

\* plugin && typeof plugin[hookName] === 'function'
hasHook(plugin, hookName) ==
    plugin # NullPlugin /\ plugin.defines = hookName /\ plugin.does \in {"returns", "throws"}

\* nothing has run yet
NoneRun == [ran |-> <<>>, logged |-> <<>>, propagated |-> FALSE]

\* plugins.forEach with a hook call that is not wrapped in try/catch
RECURSIVE forEachPluginNoCatch(_, _, _, _)
forEachPluginNoCatch(list, hookName, i, acc) ==
    IF i > Len(list) THEN acc
    ELSE IF ~hasHook(list[i], hookName) THEN forEachPluginNoCatch(list, hookName, i + 1, acc)
    ELSE IF list[i].does = "throws"
    THEN [acc EXCEPT !.ran = Append(@, i), !.propagated = TRUE]
    ELSE forEachPluginNoCatch(list, hookName, i + 1, [acc EXCEPT !.ran = Append(@, i)])

\* plugins.forEach(plugin => { if (...) { try { plugin[hookName](...args) } catch (e) { console.error } } })
RECURSIVE forEachPlugin(_, _, _, _)
forEachPlugin(list, hookName, i, acc) ==
    IF i > Len(list) THEN acc
    ELSE IF ~hasHook(list[i], hookName) THEN forEachPlugin(list, hookName, i + 1, acc)
    ELSE IF list[i].does = "throws"
    THEN forEachPlugin(list, hookName, i + 1,
                       [acc EXCEPT !.ran = Append(@, i), !.logged = Append(@, i)])
    ELSE forEachPlugin(list, hookName, i + 1, [acc EXCEPT !.ran = Append(@, i)])

\* a runHook whose hook calls are not guarded
runHookNoCatch(list, hookName) ==
    IF list = NotAnArray THEN NoneRun ELSE forEachPluginNoCatch(list, hookName, 1, NoneRun)

\* RendererUtils.runHook(plugins, hookName, args, context)
runHook(list, hookName) ==
    IF list = NotAnArray THEN NoneRun ELSE forEachPlugin(list, hookName, 1, NoneRun)

\* RendererUtils.initPlugins(instance, plugins)
initPlugins(list) ==
    IF list = NotAnArray THEN NoneRun ELSE forEachPlugin(list, "init", 1, NoneRun)

InitHooks ==
    /\ plugins \in PluginLists
    /\ hookOutcome = <<>>
    /\ constructor(DefaultConfig)
    /\ NoTableBut({"hooks"})
    /\ NoGrouping
    /\ NoAccordion

\* the constructor of a host: RendererUtils.initPlugins(this, this.plugins)
callInitPlugins ==
    /\ hookOutcome = <<>>
    /\ hookOutcome' = [hook |-> "init", outcome |-> initPlugins(plugins)]
    /\ UNCHANGED << plugins, sortState, cacheVars, widthVars, compareVars, columnVars, registry,
                    storeVars, groupVars, accordionVars >>

\* runPluginHook(hookName, ...args) of a table or an accordion
runPluginHook(hookName) ==
    /\ hookOutcome # <<>>
    /\ hookOutcome' = [hook |-> hookName, outcome |-> runHook(plugins, hookName)]
    /\ UNCHANGED << plugins, sortState, cacheVars, widthVars, compareVars, columnVars, registry,
                    storeVars, groupVars, accordionVars >>

NextHooks ==
    \/ callInitPlugins
    \/ \E hookName \in HookNames \ {"init"} : runPluginHook(hookName)

SpecHooks == InitHooks /\ [][NextHooks]_vars

(***************************************************************************)
(* The hidden columns of a table: the constructor, and the column manager  *)
(* plugin with the preferences it keeps in localStorage.                   *)
(***************************************************************************)
\* the fields of the columns of the table
ColumnFields == {"NAME", "AMT"}

\* localStorage has no entry for the table
NoEntry == [kind |-> "no entry", hidden |-> {}]

\* an entry JSON.parse fails on
Corrupt == [kind |-> "corrupt", hidden |-> {}]

\* the entry saveColumnSettings writes
Saved(hidden) == [kind |-> "saved", hidden |-> hidden]

\* what localStorage may hold when the table is built
SavedChoices == {NoEntry, Corrupt} \cup { Saved(hidden) : hidden \in SUBSET ColumnFields }

\* config: the columns marked defaultHidden, those with allowToggle: false,
\* criticalColumns, whether the column manager is among the plugins and
\* whether there is a persistenceKey
TableConfigs ==
    [defaultHidden : SUBSET ColumnFields, noToggle : SUBSET ColumnFields,
     criticalColumns : SUBSET ColumnFields, columnManager : BOOLEAN, persistenceKey : BOOLEAN]

\* ColumnManagerPlugin.loadColumnSettings(): the hidden set it installs
loadColumnSettings(config, saved) ==
    (IF config.persistenceKey /\ saved.kind = "saved" THEN saved.hidden
     ELSE config.defaultHidden) \ config.criticalColumns

\* the hidden columns of a new TableRenderer: the defaultHidden columns, then
\* the init of the column manager when it is installed
constructedHidden(config, saved) ==
    IF config.columnManager THEN loadColumnSettings(config, saved)
    ELSE config.defaultHidden

\* new TableRenderer(config)
newColumns ==
    /\ tableConfig \in TableConfigs
    /\ savedColumns \in SavedChoices
    /\ constructor([searchFields |-> <<>>,
                    hidden |-> constructedHidden(tableConfig, savedColumns),
                    onSelectionChange |-> TRUE])

InitColumns ==
    /\ newColumns
    /\ NoTableBut({"columns"})
    /\ NoGrouping
    /\ NoAccordion

\* saveColumnSettings()
saveColumnSettings(hidden) ==
    IF tableConfig.persistenceKey THEN Saved(hidden) ELSE savedColumns

\* this.hostInstance.dataController.applyFilters() with the new hidden set
refilter(op, hidden) ==
    /\ hiddenColumns' = hidden
    /\ filteredData' = applyFilters(data, searchTerm, sortConfig, searchFields, hidden)
    /\ notified' = notifyChange
    /\ lastOp' = op
    /\ selNotified' = 0
    /\ Completes
    /\ UNCHANGED << data, selectedIds, searchTerm, sortConfig, pagination, searchFields >>

\* the hidden set after a click on the checkbox of field
toggled(field) ==
    IF field \in hiddenColumns THEN hiddenColumns \ {field} ELSE hiddenColumns \cup {field}

\* toggleColumn(field, checkboxEl): critical columns, columns with
\* allowToggle: false and the last visible column are left alone
toggleColumn(field) ==
    /\ tableConfig.columnManager
    /\ IF \/ field \in tableConfig.criticalColumns
          \/ field \in tableConfig.noToggle
          \/ field \notin hiddenColumns /\ Cardinality(ColumnFields \ hiddenColumns) <= 1
       THEN UNCHANGED << storeVars, savedColumns >>
       ELSE /\ savedColumns' = saveColumnSettings(toggled(field))
            /\ refilter("toggleColumn", toggled(field))
    /\ UNCHANGED << tableConfig, sortState, cacheVars, widthVars, compareVars, hookVars, registry,
                    groupVars, accordionVars >>

\* resetSettings(): back to the defaultHidden columns that are not critical
resetSettings ==
    /\ tableConfig.columnManager
    /\ savedColumns' = IF tableConfig.persistenceKey
                       THEN Saved(tableConfig.defaultHidden \ tableConfig.criticalColumns)
                       ELSE savedColumns
    /\ refilter("resetSettings", tableConfig.defaultHidden \ tableConfig.criticalColumns)
    /\ UNCHANGED << tableConfig, sortState, cacheVars, widthVars, compareVars, hookVars, registry,
                    groupVars, accordionVars >>

\* the page is loaded again: a new table of the same config over the
\* preferences saved so far
reload ==
    /\ hiddenColumns' = constructedHidden(tableConfig, savedColumns)
    /\ lastOp' = "constructor"
    /\ UNCHANGED << data, filteredData, selectedIds, searchTerm, sortConfig, pagination,
                    searchFields, notified, selNotified, onDataChange, onSelectionChange,
                    destroyed, threw, warned >>
    /\ UNCHANGED << columnVars, sortState, cacheVars, widthVars, compareVars, hookVars, registry,
                    groupVars, accordionVars >>

NextColumns ==
    \/ \E field \in ColumnFields : toggleColumn(field)
    \/ resetSettings
    \/ reload

SpecColumns == InitColumns /\ [][NextColumns]_vars

(***************************************************************************)
(* RendererUtils.smartRender on one container: the first call creates a    *)
(* table or an accordion through DataRenderFactory.create, a later call    *)
(* with the same config hands the data to setData of that instance.        *)
(***************************************************************************)
\* the rows a caller sends
PayloadRows == { <<>>, << Ana >>, << Bo >>, << ana >>, << Bo, Ana >>, << Ana, ana >>, << Ana, Bo, ana >> }

\* data: an array of rows, or a legacy object with the rows under Relacao;
\* ref is the identity of the array or of the object
Payloads == [shape : {"array", "legacy"}, ref : DatasetRefs, rows : PayloadRows]

\* config: levels make an accordion, none a table
SmartConfigs == [levels : {<<>>, << "NAME" >>, << "ATIVO" >>}, pageSize : 1..MaxPageSize]

\* RendererUtils.getConfigHash(config): JSON.stringify, one string per config
getConfigHash(config) == config

\* DataRenderFactory.create: isTable = !shouldBeAccordion
isTable(config) == Len(config.levels) = 0

\* DataRenderFactory.create / BasicNestedAccordionRenderer.render: relacao,
\* the array itself or data.Relacao || []
relacao(payload) == payload.rows

\* the identity of relacao: the array itself, or the array under Relacao
relacaoRef(payload) ==
    IF payload.shape = "array" THEN payload.ref ELSE payload.ref + MaxArrays

\* a new DataController and its first setData(d)
freshStore(d, size, selectionCallback) ==
    /\ data' = d
    /\ filteredData' = d
    /\ selectedIds' = {}
    /\ searchTerm' = Undefined
    /\ sortConfig' = [field |-> NullField, direction |-> "null", customCompare |-> NoCompare]
    /\ pagination' = [pageSize |-> size, currentPage |-> 1]
    /\ searchFields' = <<>>
    /\ hiddenColumns' = {}
    /\ lastOp' = "setData"
    /\ notified' = 1
    /\ selNotified' = 0
    /\ onDataChange' = TRUE
    /\ onSelectionChange' = selectionCallback
    /\ destroyed' = FALSE
    /\ threw' = FALSE
    /\ warned' = 0

\* BasicTableRenderer.render(containerId, relacao, ...): new TableRenderer(config),
\* then renderer.setData(safeData)
createTable(payload, config) ==
    /\ freshStore(relacao(payload), config.pageSize, TRUE)
    /\ sortState' = [field |-> NullField, direction |-> "asc"]
    /\ lastDatasetRef' = relacaoRef(payload)
    /\ dataRef' = relacaoRef(payload)
    /\ updateTable(<<>>)
    /\ accordionLevels' = <<>>
    /\ hasDataLoaded' = FALSE
    /\ expandedGroups' = {}
    /\ Draw([pagination |-> [enabled |-> FALSE, currentPage |-> 1, pageSize |-> 1,
                             totalItems |-> 0, totalPages |-> 0],
             cards |-> {}, leafTables |-> {}])
    /\ visualUpdates' = 0
    /\ leafUpdates' = [rendered |-> 0, visuals |-> 0]

\* BasicNestedAccordionRenderer.render(containerId, data, ...):
\* new NestedAccordionRenderer({ data: finalData, ... })
createAccordion(payload, config) ==
    /\ freshStore(relacao(payload), 1, FALSE)
    /\ accordionLevels' = config.levels
    /\ hasDataLoaded' = TRUE
    /\ expandedGroups' = {}
    /\ Draw(render(relacao(payload), config.levels,
                   [enabled |-> TRUE, currentPage |-> 1, pageSize |-> config.pageSize,
                    totalItems |-> 0, totalPages |-> 0],
                   {}, TRUE))
    /\ visualUpdates' = 0
    /\ leafUpdates' = [rendered |-> 0, visuals |-> 0]
    /\ sortState' = [field |-> NullField, direction |-> "asc"]
    /\ dataRef' = 0
    /\ lastDatasetRef' = 0
    /\ widthCache' = <<>>
    /\ usedWidths' = <<>>

\* TableRenderer.setData(data) with an object that is not an array: the
\* Store warns and keeps []
tableSetDataObject(ref) ==
    /\ lastDatasetRef' = ref
    /\ dataRef' = 0
    /\ setDataNonArray(PlainObject)
    /\ updateTable(IF lastDatasetRef # ref THEN <<>> ELSE widthCache)
    /\ UNCHANGED << sortState, tableRest, groupVars, accordionVars >>

\* RendererUtils.smartRender(containerId, data, config)
smartRender(payload, config) ==
    IF registry # <<>> /\ registry.hash = getConfigHash(config)
    THEN IF registry.kind = "table"
         THEN IF payload.shape = "array"
              THEN tableSetData(payload.ref, payload.rows)
              ELSE tableSetDataObject(payload.ref)
         ELSE accordionSetData(payload.rows)
    ELSE /\ registry' = [kind |-> IF isTable(config) THEN "table" ELSE "accordion",
                         hash |-> getConfigHash(config)]
         /\ IF isTable(config) THEN createTable(payload, config)
            ELSE createAccordion(payload, config)
         /\ UNCHANGED << groupVars, widthVars, compareVars, hookVars, columnVars >>

\* no instance yet in the container
InitSmartRender ==
    /\ constructor(DefaultConfig)
    /\ NoTable
    /\ NoGrouping
    /\ NoAccordion

NextSmartRender == \E payload \in Payloads, config \in SmartConfigs : smartRender(payload, config)

SpecSmartRender == InitSmartRender /\ [][NextSmartRender]_vars

(***************************************************************************)
(* Properties of the Store.                                                *)
(***************************************************************************)

\* C1: after any operation the page cursor lies in 1 .. getTotalPages(),
\* getTotalPages() being ceil(|filteredData| / pageSize) with a floor of 1.
C1_PageCursorInRange ==
    /\ 1 <= pagination.currentPage
    /\ pagination.currentPage <= getTotalPages

\* C2: filteredData always equals filter-then-sort recomputed from scratch
\* over the current rawData, searchTerm and sortSpec, whatever calls came before.
C2_FilteredIsRecomputation ==
    filteredData = applyFilters(data, searchTerm, sortConfig, searchFields, hiddenColumns)

\* a state in which a search and a sort are both in force and both changed the view
C2_Witness ==
    /\ lastOp \in {"setData", "setSearchTerm", "setSort"}
    /\ searchTerm.def /\ searchTerm.s # <<>>
    /\ sortConfig.field # NullField
    /\ Len(filteredData) = 2
    /\ Len(data) = 3
    /\ filteredData # FilterRecords(data, searchTerm, searchFields, hiddenColumns)

\* Number(item.ID), the key as the caller's comparator reads it
KeyNumber(item) == ParseFloat(ToStr(item[keyField])).v

\* the caller's comparator (a, b) => a.ID - b.ID
CallerCompare(name, a, b) == KeyNumber(a) - KeyNumber(b)

\* C3: with a customCompare given to setSort, filteredData is in the order
\* customCompare defines (ascending; for 'desc' either that order or its reverse).
C3_CustomCompareOrders ==
    (sortConfig.customCompare # NoCompare /\ sortConfig.field # NullField
        /\ sortConfig.direction # "null")
    => \/ \A i, j \in 1..Len(filteredData) :
            i < j => CallerCompare(sortConfig.customCompare, filteredData[i], filteredData[j]) <= 0
       \/ /\ sortConfig.direction = "desc"
          /\ \A i, j \in 1..Len(filteredData) :
                i < j => CallerCompare(sortConfig.customCompare, filteredData[i], filteredData[j]) >= 0

\* the Store's fields, without the record of the last call
storeFields ==
    << data, filteredData, selectedIds, searchTerm, sortConfig, pagination,
       searchFields, hiddenColumns >>

\* C4: setSearchTerm(t) with the stored term already equal to t changes no
\* field of the Store and emits no change notification, so a second
\* setSearchTerm(t) in a row leaves the view and state of the first.
C4_SameTermIsNoOp ==
    [][\A t \in SearchTexts :
        (searchTerm = Term(t) /\ setSearchTerm(t))
            => (UNCHANGED storeFields /\ notified' = 0)]_vars

\* the same term is set again while the cursor is on a later page of a filtered view
C4_Witness ==
    /\ lastOp = "setSearchTerm"
    /\ notified = 0
    /\ searchTerm.def /\ searchTerm.s # <<>>
    /\ Len(filteredData) < Len(data)
    /\ pagination.currentPage = 2

\* the match the search is meant to make: some checked, visible field holds a
\* non-null value whose string form contains the term, case-insensitively
ShouldMatch(item, term, sFields, hidden) ==
    LET checked == IF Len(sFields) > 0
                   THEN {sFields[i] : i \in 1..Len(sFields)}
                   ELSE DOMAIN item
    IN  \E f \in checked \cap DOMAIN item :
            /\ f \notin hidden
            /\ item[f].t # "null"
            /\ Includes(ToLowerCase(ToStr(item[f])), ToLowerCase(term))

\* C5: with a non-empty search term a record is in filteredData iff a checked,
\* visible field holds a non-null value whose string form contains the term,
\* for strings, numbers and booleans alike.
C5_SearchMatchesEveryType ==
    (searchTerm.def /\ searchTerm.s # <<>>)
    => \A i \in 1..Len(data) :
            (\E j \in 1..Len(filteredData) : filteredData[j] = data[i])
                <=> ShouldMatch(data[i], searchTerm.s, searchFields, hiddenColumns)

Reverse(list) == [i \in 1..Len(list) |-> list[Len(list) + 1 - i]]

\* a setSort call that turns the same field from 'asc' to 'desc'
AscToDesc ==
    /\ lastOp' = "setSort"
    /\ sortConfig.field # NullField
    /\ sortConfig'.field = sortConfig.field
    /\ sortConfig.direction = "asc"
    /\ sortConfig'.direction = "desc"

\* the field's values in the view are pairwise distinct, and all strings or all numbers
DistinctValues(list, field) ==
    /\ \A i, j \in 1..Len(list) : i # j => list[i][field] # list[j][field]
    /\ \/ \A i \in 1..Len(list) : list[i][field].t = "str"
       \/ \A i \in 1..Len(list) : list[i][field].t = "num"

\* no two records of the view compare equal on the field under the default comparison
\* and the comparison orders them consistently (it is transitive on them)
DistinctUnderCompare(list, field) ==
    LET less(i, j) == DefaultCompare(list[i], list[j], field, "asc") < 0
    IN  /\ \A i, j \in 1..Len(list) :
            i # j => DefaultCompare(list[i], list[j], field, "asc") # 0
        /\ \A i, j, k \in 1..Len(list) : (less(i, j) /\ less(j, k)) => less(i, k)

\* what every setSort call keeps: rawData as it was, and the filter-only order
\* (the matching records in rawData order) once the sort is cleared
SortKeepsRawOrder ==
    lastOp' = "setSort"
    => /\ data' = data
       /\ sortConfig'.direction = "null"
            => filteredData' = FilterRecords(data, searchTerm, searchFields, hiddenColumns)

\* C6 as stated: for a field whose values are distinct and comparable, 'desc'
\* is the exact reverse of 'asc'; setSort(null, null) restores the filter-only
\* order; rawData is never reordered.
C6_DescReversesDistinctValues ==
    [][/\ SortKeepsRawOrder
       /\ (AscToDesc /\ DistinctValues(filteredData, sortConfig.field))
            => filteredData' = Reverse(filteredData)]_vars

\* C6 amended: the reversal holds when no two records of the view compare equal
\* under the default comparison (after null -> '', number parsing, case folding).
C6_DescReversesDistinctKeys ==
    [][/\ SortKeepsRawOrder
       /\ (AscToDesc /\ DistinctUnderCompare(filteredData, sortConfig.field))
            => filteredData' = Reverse(filteredData)]_vars

\* three records sorted descending on a field where none compare equal, in an
\* order that is neither the raw order nor the ascending one
C6_Witness ==
    /\ lastOp = "setSort"
    /\ sortConfig.direction = "desc"
    /\ Len(filteredData) = 3
    /\ DistinctUnderCompare(filteredData, sortConfig.field)
    /\ filteredData # data
    /\ filteredData # Reverse(data)

\* n clamped into lo .. hi
Clamp(n, lo, hi) == IF n < lo THEN lo ELSE IF n > hi THEN hi ELSE n

\* C7 as stated: goToPage(n) clamps: below 1 the cursor becomes 1, above
\* totalPages it becomes totalPages, inside the range it becomes n.
C7_GoToPageClamps ==
    [][\A n \in 0..MaxPageArg :
        goToPage(n) => pagination'.currentPage = Clamp(n, 1, getTotalPages)]_vars

\* C7 amended: goToPage(n) with n in 1 .. totalPages moves the cursor to n and
\* notifies; with n outside that range it is ignored: the cursor stays where
\* it was and nothing is notified.
C7_GoToPageIgnoresOutOfRange ==
    [][\A n \in 0..MaxPageArg :
        goToPage(n)
            => IF 1 <= n /\ n <= getTotalPages
               THEN pagination'.currentPage = n /\ notified' = 1
               ELSE pagination' = pagination /\ notified' = 0]_vars

\* an out-of-range goToPage was ignored while the cursor was on a later page
C7_Witness ==
    /\ lastOp = "goToPage"
    /\ notified = 0
    /\ pagination.currentPage > 1
    /\ pagination.currentPage <= getTotalPages

\* the keys of the records of the current filtered view, on whatever page
ViewKeys == {KeyOf(filteredData[i]) : i \in 1..Len(filteredData)}

\* every key string a record of the pool can have
AllKeys == {KeyOf(item) : item \in Pool}

\* C8: toggleSelectAll(true) adds exactly the keys of the filtered view (all
\* of its pages), toggleSelectAll(false) removes exactly those; keys of
\* records outside the view are neither added nor removed.
C8_SelectAllIsTheFilteredView ==
    [][\A b \in BOOLEAN :
        toggleSelectAll(b)
            => \A k \in AllKeys :
                IF k \in ViewKeys
                THEN (k \in selectedIds') <=> b
                ELSE (k \in selectedIds') <=> (k \in selectedIds)]_vars

\* select-all ran on a view that the search narrowed and that spans two pages,
\* with a record outside the view unselected and one outside it still selected
C8_Witness ==
    /\ lastOp = "toggleSelectAll"
    /\ searchTerm.def /\ searchTerm.s # <<>>
    /\ Len(filteredData) = 2
    /\ Len(data) = 3
    /\ pagination.pageSize = 1
    /\ ViewKeys \subseteq selectedIds
    /\ selectedIds = ViewKeys

\* C9: isAllSelected() is true iff the filtered view is non-empty and the
\* string-normalised key of every record of the view is in selectedKeys.
C9_IsAllSelected ==
    isAllSelected <=> (filteredData # <<>> /\ ViewKeys \subseteq selectedIds)

\* all of a narrowed view is selected, by single toggles, while a record
\* outside the view is not
C9_Witness ==
    /\ isAllSelected
    /\ lastOp = "toggleSelection"
    /\ Len(filteredData) = 2
    /\ Len(data) = 3
    /\ Cardinality(selectedIds) = 2

\* C10: setSearchTerm, setSort, goToPage and setPageSize leave selectedKeys as
\* it is, and every selected record of the raw dataset is still returned by
\* getSelectedItems, in the filtered view or not.
C10_SelectionSurvivesViewChanges ==
    [][lastOp' \in {"setSearchTerm", "setSort", "goToPage", "setPageSize"}
        => /\ selectedIds' = selectedIds
           /\ \A i \in 1..Len(data') :
                KeyOf(data'[i]) \in selectedIds
                    => \E j \in 1..Len(getSelectedItems') : getSelectedItems'[j] = data'[i]]_vars

\* a search has put a selected record out of the view; it is still selected
C10_Witness ==
    /\ lastOp = "setSearchTerm"
    /\ notified = 1
    /\ \E i \in 1..Len(data) :
        /\ KeyOf(data[i]) \in selectedIds
        /\ KeyOf(data[i]) \notin ViewKeys
        /\ \E j \in 1..Len(getSelectedItems) : getSelectedItems[j] = data[i]

(***************************************************************************)
(* Properties of the Store's life cycle.                                   *)
(***************************************************************************)
wiring == << onDataChange, onSelectionChange, destroyed >>

\* C11: destroy() is idempotent. The first call leaves the raw dataset, the
\* filtered view and the selection empty and both callbacks null; a later
\* call changes no field of the Store; and from the first call on no
\* operation invokes onDataChange or onSelectionChange.
C11_DestroyIsIdempotent ==
    [][/\ (destroy /\ ~destroyed)
            => /\ data' = <<>> /\ filteredData' = <<>> /\ selectedIds' = {}
               /\ ~onDataChange' /\ ~onSelectionChange'
       /\ (destroy /\ destroyed) => UNCHANGED << storeFields, wiring >>
       /\ (destroy \/ destroyed) => (notified' = 0 /\ selNotified' = 0)
       /\ destroyed => destroyed']_vars

\* destroy() called again on a Store that was used after its first destroy()
C11_Witness ==
    /\ lastOp = "destroy"
    /\ destroyed
    /\ selectedIds # {}
    /\ data # <<>>

\* C12: setData with a value that is not an array (plain object, string,
\* number, null, undefined) does not throw; afterwards rawData and
\* filteredData are empty and exactly one change notification was emitted,
\* whose snapshot has pageData = [] and total = 0.
C12_NonArrayDataIsEmptied ==
    [][\A value \in NonArrays :
        setDataNonArray(value)
            => /\ ~threw'
               /\ data' = <<>>
               /\ filteredData' = <<>>
               /\ notified' = 1
               /\ \A enabled \in BOOLEAN :
                    /\ getDataSnapshot(enabled)'.pageData = <<>>
                    /\ getDataSnapshot(enabled)'.total = 0]_vars

\* a truthy non-array replaced a dataset that had rows and a selection
C12_Witness ==
    /\ lastOp = "setData"
    /\ warned = 1
    /\ data = <<>>
    /\ notified = 1
    /\ selectedIds # {}
    /\ searchTerm = Term(<< "A" >>)

\* C13: every operation of the Store completes without throwing in every
\* reachable state, the states after destroy() included.
C13_OperationsAreTotal == ~threw

(***************************************************************************)
(* Properties of the grouping tree.                                        *)
(***************************************************************************)
\* how often a record occurs in a list
Occurrences(list, item) == Cardinality({i \in 1..Len(list) : list[i] = item})

\* the leaves of a tree, found by walking every property that holds an object
RECURSIVE LeavesOf(_)
RECURSIVE LeavesOfAll(_)
LeavesOfAll(values) ==
    IF values = <<>> THEN <<>>
    ELSE LeavesOf(values[1]) \o LeavesOfAll(Tail(values))

LeavesOf(node) ==
    IF node.tag # "object" THEN <<>>
    ELSE IF Get(node, IsLeafKey) = TrueValue THEN << Get(node, ItemsKey).list >>
    ELSE LeavesOfAll(Values(node))

\* C14: the tree built by groupByLevels is a partition of the input: every
\* input record is in exactly one leaf, getItems(tree) holds each input record
\* once and nothing else, and countItems(tree) is the number of input
\* records, whatever the values of the grouping fields are.
C14_GroupingIsAPartition ==
    gTree # NotGrouped
        => /\ gTree # TypeError
           /\ \A i \in 1..Len(gRecords) :
                Cardinality({l \in 1..Len(LeavesOf(gTree)) :
                    Occurrences(LeavesOf(gTree)[l], gRecords[i]) = 1}) = 1
           /\ getItems(gTree).tag = "array"
           /\ Len(getItems(gTree).list) = Len(gRecords)
           /\ \A i \in 1..Len(gRecords) :
                Occurrences(getItems(gTree).list, gRecords[i]) = 1
           /\ countItems(gTree) = Len(gRecords)

\* the group keys of a record list in the order of their first occurrence
RECURSIVE FirstSeenKeys(_, _, _)
FirstSeenKeys(d, field, seen) ==
    IF d = <<>> THEN seen
    ELSE FirstSeenKeys(Tail(d), field,
            IF \E i \in 1..Len(seen) : seen[i] = GroupKey(d[1], field)
            THEN seen
            ELSE Append(seen, GroupKey(d[1], field)))

\* the tree lists, level by level, the keys of d in first-seen order and
\* its leaves hold the records in input order
RECURSIVE InFirstSeenOrder(_, _, _, _)
InFirstSeenOrder(node, d, levels, currentLevel) ==
    IF currentLevel >= Len(levels)
    THEN Get(node, ItemsKey) = ArrayValue(d)
    ELSE LET field == levels[currentLevel + 1]
         IN  /\ Keys(node) = FirstSeenKeys(d, field, <<>>)
             /\ \A i \in 1..Len(Keys(node)) :
                    InFirstSeenOrder(Values(node)[i],
                        SelectSeq(d, LAMBDA item : GroupKey(item, field) = Keys(node)[i]),
                        levels, currentLevel + 1)

\* C15: at every level the group keys are enumerated in the order in which
\* each key first occurs in the input, numeric-looking keys included, and the
\* records of a leaf keep their input order.
C15_KeysInFirstSeenOrder ==
    (gTree # NotGrouped /\ gTree # TypeError)
        => InFirstSeenOrder(gTree, gRecords, gLevels, 0)

(***************************************************************************)
(* Claims about the pagination and the expansion of the accordion.         *)
(***************************************************************************)
\* the operations after which the accordion renders a page of groups
PagingOps == {"accordion.goToPage", "accordion.setPageSize", "setSearchTerm"}

\* the top-level keys of the view: the distinct values of the first level
AllTopKeys == TopLevelKeys(GroupedTable[filteredData, accordionLevels])

\* the top-level keys of the cards in the DOM
RenderedTopKeys == {card.keys[1] : card \in {c \in cards : Len(c.keys) = 1}}

\* the keys at positions (currentPage-1)*pageSize .. currentPage*pageSize-1
KeysOfPage(allKeys, pag) ==
    {allKeys[i] : i \in {j \in 1..Len(allKeys) :
        /\ j > (pag.currentPage - 1) * pag.pageSize
        /\ j <= pag.currentPage * pag.pageSize}}

\* C16: after every render of a non-empty view that follows goToPage,
\* setPageSize or a search, totalItems counts the top-level keys, totalPages
\* is max(1, ceil(totalItems / pageSize)), the cursor is within
\* 1..totalPages and the rendered top-level groups are the keys of that page.
C16_GroupCursorStaysInRange ==
    (renders = 1 /\ lastOp \in PagingOps /\ hasDataLoaded /\ Len(filteredData) > 0)
        => /\ accordionPagination.totalItems = Len(AllTopKeys)
           /\ accordionPagination.totalPages
                  = TotalPagesOf(Len(AllTopKeys), accordionPagination.pageSize)
           /\ accordionPagination.currentPage \in 1..accordionPagination.totalPages
           /\ RenderedTopKeys = KeysOfPage(AllTopKeys, accordionPagination)

\* the card of a group, named by its chain of group keys, is shown expanded
ShownExpanded(shown, keys) == \E card \in shown : card.keys = keys /\ card.expanded

\* C17: a header toggle flips the group it is made on and no other, and a
\* re-render keeps every group that is rendered before and after it as it
\* was, expanded or collapsed: an entry of the expanded set keeps denoting
\* the same chain of group keys.
C17_ExpansionFollowsTheGroup ==
    [][/\ renders' = 1
            => \A before \in cards, after \in cards' :
                    before.keys = after.keys => before.expanded = after.expanded
       /\ \A before \in cards :
            toggle(before.id)
                => \A after \in cards' :
                    after.expanded = IF after.keys = before.keys
                                     THEN ~before.expanded
                                     ELSE ShownExpanded(cards, after.keys)]_vars

(***************************************************************************)
(* Claims about selection in the accordion.                                *)
(***************************************************************************)
\* the keys of the records of the view that lie under the group named by a
\* chain of group keys: at each level of the chain the record has that key
IdsUnder(keys) ==
    {KeyOf(filteredData[i]) : i \in {j \in 1..Len(filteredData) :
        \A level \in 1..Len(keys) :
            GroupKey(filteredData[j], accordionLevels[level]) = keys[level]}}

\* C18: toggleGroupSelection on a rendered group with records deselects all
\* the records under the group when all of them were selected and selects
\* all of them otherwise, leaves the keys of the other records alone, and
\* runs updateSelectionVisuals without a change notification or a render.
C18_GroupToggleCascades ==
    [][\A card \in cards :
        toggleGroupSelection(card.id)
            => /\ IdsUnder(card.keys) # {}
               /\ IF IdsUnder(card.keys) \subseteq selectedIds
                  THEN selectedIds' \cap IdsUnder(card.keys) = {}
                  ELSE IdsUnder(card.keys) \subseteq selectedIds'
               /\ selectedIds' \ IdsUnder(card.keys) = selectedIds \ IdsUnder(card.keys)
               /\ notified' = 0
               /\ renders' = 0
               /\ visualUpdates' = 1]_vars

\* a group toggle has just selected the two records of a group of groups
C18_Witness ==
    /\ lastOp = "accordion.toggleGroupSelection"
    /\ visualUpdates = 1
    /\ \E card \in cards :
        /\ ~card.isLeaf
        /\ Cardinality(IdsUnder(card.keys)) = 2
        /\ selectedIds = IdsUnder(card.keys)

\* every leaf table in the DOM reads the selection of the accordion's Store
LeavesShareSelection == \A leaf \in leafTables : SelectedIdsOf(leaf) = selectedIds

\* C19: the Stores of the leaf tables and the accordion's Store hold one
\* selection set: what a leaf's toggleSelection or toggleSelectAll adds or
\* removes is added to or removed from the accordion's selectedIds, what the
\* group toggle changes is what every leaf Store reads, also for leaf tables
\* made anew by a re-render, and a leaf mutation runs updateSelectionVisuals
\* of the leaf table and of the accordion.
C19_OneSelectionSet ==
    [][/\ LeavesShareSelection'
       /\ \A leaf \in leafTables :
            /\ \A id \in RowIds(leaf) :
                leafToggleSelection(leaf, id)
                    => /\ (ToStr(id) \in selectedIds') = (ToStr(id) \notin selectedIds)
                       /\ selectedIds' \ {ToStr(id)} = selectedIds \ {ToStr(id)}
                       /\ leafUpdates'.visuals = 1
                       /\ visualUpdates' = 1
            /\ leafToggleSelectAll(leaf, TRUE)
                    => /\ selectedIds' = selectedIds \cup AllIds(leaf.data)
                       /\ leafUpdates'.visuals = 1
                       /\ visualUpdates' = 1
            /\ leafToggleSelectAll(leaf, FALSE)
                    => /\ selectedIds' = selectedIds \ AllIds(leaf.data)
                       /\ leafUpdates'.visuals = 1
                       /\ visualUpdates' = 1]_vars

\* a row was selected in one of two leaf tables, and the accordion's Store
\* holds its key
C19_Witness ==
    /\ lastOp = "leaf.toggleSelection"
    /\ Cardinality(leafTables) >= 2
    /\ Cardinality(selectedIds) = 1
    /\ \E leaf \in leafTables : selectedIds \subseteq AllIds(leaf.data)

\* the operations that change what the table shows: data, search, sort, page
StructuralOps == {"setData", "setSearchTerm", "setSort", "goToPage", "setPageSize"}

\* C20: a selection-only change, the toggle of a row or select-all /
\* deselect-all, runs the visual path (onSelectionChange) and never the
\* structural one (onDataChange, the full re-render), which runs only for
\* data, search, sort and page changes.
C20_SelectionTakesTheVisualPath ==
    [][/\ (\E item \in Pool : toggleSelection(item[keyField]))
            => (notified' = 0 /\ selNotified' = 1)
       /\ (\E shouldSelect \in BOOLEAN : toggleSelectAll(shouldSelect))
            => (notified' = 0 /\ selNotified' = 1)
       /\ notified' = 1 => lastOp' \in StructuralOps]_vars

(***************************************************************************)
(* Claims about the table.                                                 *)
(***************************************************************************)
\* C21: clicks on one header cycle ascending -> descending -> unsorted ->
\* ascending, a click on another header sets that column ascending, and after
\* every click the sort of the Store is the one the headers display: the
\* same field and direction, or no field and no direction when unsorted.
C21_SortCycleOfThreeStates ==
    [][\A field \in SortFields :
        handleSort(field)
            => /\ sortState' =
                    IF sortState.field = field /\ sortState.direction = "asc"
                    THEN [field |-> field, direction |-> "desc"]
                    ELSE IF sortState.field = field /\ sortState.direction = "desc"
                    THEN [field |-> NullField, direction |-> "asc"]
                    ELSE [field |-> field, direction |-> "asc"]
               /\ sortConfig'.field = sortState'.field
               /\ sortConfig'.direction =
                    IF sortState'.field = NullField THEN "null" ELSE sortState'.direction]_vars

\* the third click on a header has left the table and the Store unsorted
C21_Witness ==
    /\ lastOp = "setSort"
    /\ sortState.field = NullField
    /\ sortConfig.field = NullField
    /\ sortConfig.direction = "null"
    /\ Len(filteredData) = MaxRows

\* the call of computeAutoWidths has returned
WidthsComputed == widthMap # <<>>

\* the non-locked columns of the call that configure no width
SizedFromContent ==
    { i \in 1..Len(wColumns) :
        /\ ~_isLocked(wColumns[i])
        /\ ~(Truthy(wColumns[i].width) /\ wColumns[i].width # Str(<< "a", "u", "t", "o" >>)) }

\* ceil(titleLength * 8.5 + 40 + 25 + 15)
HeaderSafetyFloor(titleLength) == (17 * titleLength + 161) \div 2

\* C22 as stated: the width of every non-locked column without an explicit
\* width lies between the minimum and the maximum of its preset, and is no
\* smaller than the header-safety floor of its title, whatever the sample.
C22_WidthWithinPresetAndAboveFloor ==
    WidthsComputed =>
        \A i \in SizedFromContent :
            widthMap[wColumns[i].field].t = "num" =>
                /\ presetOf(wColumns[i]).min <= widthMap[wColumns[i].field].n
                /\ widthMap[wColumns[i].field].n <= presetOf(wColumns[i]).max
                /\ widthMap[wColumns[i].field].n >= HeaderSafetyFloor(Len(wColumns[i].title))

\* C22 amended: the width of every non-locked column without an explicit
\* width is at least the minimum of its preset and at most the greater of the
\* maximum of its preset and the header-safety floor of its title; a column
\* with a title is never narrower than that floor, and a column without a
\* title has no floor; the one column elected flexible has no width.
C22_WidthWithinPresetOrHeaderFloor ==
    WidthsComputed =>
        \A i \in SizedFromContent :
            /\ widthMap[wColumns[i].field].t \in {"num", "null"}
            /\ widthMap[wColumns[i].field].t = "num" =>
                /\ presetOf(wColumns[i]).min <= widthMap[wColumns[i].field].n
                /\ widthMap[wColumns[i].field].n
                     <= MathMax(presetOf(wColumns[i]).max,
                                IF wColumns[i].title = <<>> THEN 0
                                ELSE HeaderSafetyFloor(Len(wColumns[i].title)))
                /\ wColumns[i].title # <<>>
                     => widthMap[wColumns[i].field].n >= HeaderSafetyFloor(Len(wColumns[i].title))
                /\ wColumns[i].title = <<>>
                     => widthMap[wColumns[i].field].n <= presetOf(wColumns[i]).max

\* a titled column whose header floor is over the maximum of its preset has
\* been sized from a sample of two rows
C22_Witness ==
    /\ WidthsComputed
    /\ Len(wData) = 2
    /\ \E i \in SizedFromContent :
        /\ wColumns[i].title # <<>>
        /\ HeaderSafetyFloor(Len(wColumns[i].title)) > presetOf(wColumns[i]).max
        /\ widthMap[wColumns[i].field] = Num(HeaderSafetyFloor(Len(wColumns[i].title)))

\* the non-locked columns of the call that configure a width and carry a title
ExplicitlySized ==
    { i \in 1..Len(wColumns) :
        /\ ~_isLocked(wColumns[i])
        /\ Truthy(wColumns[i].width)
        /\ wColumns[i].width # Str(<< "a", "u", "t", "o" >>)
        /\ wColumns[i].title # <<>> }

\* C23: the entry of a non-locked, titled column with an explicit width W is
\* the whole number of pixels max(W, header-safety floor), unless the column
\* was elected flexible; every value of the width map is a whole number of
\* pixels or null.
C23_ExplicitWidthIsPixelCount ==
    WidthsComputed =>
        /\ \A i \in ExplicitlySized :
              ~configPx(wColumns[i]).nan =>
                  widthMap[wColumns[i].field] \in
                      { Null,
                        Num(MathMax(configPx(wColumns[i]).v,
                                    HeaderSafetyFloor(Len(wColumns[i].title)))) }
        /\ \A k \in DOMAIN widthMap : widthMap[k].t \in {"num", "null"}

\* the text-type columns of the call that are sized from their content
TextColumns ==
    { i \in SizedFromContent : isTextType(wColumns[i]) }

\* the columns the returned map leaves flexible although they are not locked
FlexibleColumns(map) ==
    { i \in 1..Len(wColumns) : ~_isLocked(wColumns[i]) /\ map[wColumns[i].field] = Null }

\* C27: when the summed width is below the viewport width minus 60, exactly
\* one column is switched to flexible, the text-type column of the largest
\* resolved width; otherwise none is switched; so at most one non-locked
\* column is flexible in the returned map.
C27_HeroIsTheWidestTextColumn ==
    [][\A inlineCount \in InlineActions :
          callComputeAutoWidths(inlineCount) =>
              /\ Cardinality(FlexibleColumns(widthMap')) <= 1
              /\ sizedColumns(wColumns, wData, inlineCount).total
                     >= (IF wViewport = 0 THEN 1920 ELSE wViewport) - 60
                   => widthMap' = sizedColumns(wColumns, wData, inlineCount).map
              /\ (sizedColumns(wColumns, wData, inlineCount).total
                       < (IF wViewport = 0 THEN 1920 ELSE wViewport) - 60
                  /\ TextColumns # {})
                   => \E h \in TextColumns :
                        /\ widthMap' = MapSet(sizedColumns(wColumns, wData, inlineCount).map,
                                              wColumns[h].field, Null)
                        /\ \A i \in TextColumns :
                             sizedColumns(wColumns, wData, inlineCount).map[wColumns[i].field].n
                               <= sizedColumns(wColumns, wData, inlineCount).map[wColumns[h].field].n]_vars

\* C28: a setData with an array other than the last one clears the width
\* cache, and the render that follows sizes the columns from the new rows,
\* equal rows included; a setData with the same array leaves the cached map
\* in place and the render uses it; so the widths a render uses were always
\* computed from the array the Store holds.
C28_WidthsFollowTheDatasetReference ==
    /\ [](usedWidths # <<>> => usedWidths.ref = dataRef)
    /\ [][\A ref \in DatasetRefs, d \in Datasets :
            tableSetData(ref, d) =>
                /\ (ref # lastDatasetRef /\ usedWidths' # <<>>)
                     => /\ usedWidths' = [ref |-> ref,
                                          map |-> computeAutoWidths(TableColumns, d, 0, 0)]
                        /\ widthCache' = usedWidths'
                /\ (ref = lastDatasetRef /\ widthCache # <<>>)
                     => /\ widthCache' = widthCache
                        /\ usedWidths' \in {<<>>, widthCache}]_vars

\* the second array has replaced the first, whose widths were cached, and a
\* render has sized the columns again
C28_Witness ==
    /\ lastOp = "setData"
    /\ lastDatasetRef = 2
    /\ usedWidths # <<>>
    /\ usedWidths.ref = 2
    /\ widthCache = usedWidths
    /\ sortState.field # NullField

\* C29: every snapshot is self-consistent, with pagination enabled or
\* disabled: total is the length of filteredData, pageData is the run of
\* filteredData at the 1-based positions stats.start .. stats.end, and
\* pageData has stats.end - stats.start + 1 records.
C29_SnapshotIsSelfConsistent ==
    \A enabled \in BOOLEAN :
        /\ getDataSnapshot(enabled).total = Len(filteredData)
        /\ getDataSnapshot(enabled).pageData
             = SubSeq(filteredData, getDataSnapshot(enabled).stats.start,
                      getDataSnapshot(enabled).stats.end)
        /\ Len(getDataSnapshot(enabled).pageData)
             = getDataSnapshot(enabled).stats.end - getDataSnapshot(enabled).stats.start + 1

\* the value is a string with a minus sign in it
HasMinus(val) == val.t = "str" /\ IndexOf(val.s, "-") >= 0

\* the order of two values compared as case-folded strings, null being ''
StringOrder(a, b, direction) ==
    IF StrLess(ToLowerCase(ToStr(IF a = Null THEN Str(<<>>) ELSE a)),
               ToLowerCase(ToStr(IF b = Null THEN Str(<<>>) ELSE b)))
    THEN (IF direction = "asc" THEN -1 ELSE 1)
    ELSE IF StrLess(ToLowerCase(ToStr(IF b = Null THEN Str(<<>>) ELSE b)),
                    ToLowerCase(ToStr(IF a = Null THEN Str(<<>>) ELSE a)))
    THEN (IF direction = "asc" THEN 1 ELSE -1)
    ELSE 0

\* C26: a string with a minus sign at any position, a leading one included,
\* is never parsed as a number: the comparison it takes part in is the one
\* of the case-folded strings.
C26_MinusSignMeansText ==
    (cmpResult # <<>> /\ (HasMinus(cmpArgs.a) \/ HasMinus(cmpArgs.b)))
        => cmpResult[1] = StringOrder(cmpArgs.a, cmpArgs.b, cmpArgs.direction)

\* the positions of the plugins that define the hook as a function, in list order
DefinersOf(hookName) ==
    IF plugins = NotAnArray THEN <<>>
    ELSE SelectSeq([i \in 1..Len(plugins) |-> i],
                   LAMBDA i : /\ plugins[i] # NullPlugin
                              /\ plugins[i].defines = hookName
                              /\ plugins[i].does \in {"returns", "throws"})

\* C24: runHook invokes the hook on every plugin of the list that defines
\* it, in list order; a hook that throws is caught and logged, the hooks of
\* the plugins after it still run, and nothing propagates to the caller.
C24_HookFailuresAreIsolated ==
    [][\A hookName \in HookNames \ {"init"} :
          runPluginHook(hookName) =>
              /\ hookOutcome'.outcome.ran = DefinersOf(hookName)
              /\ hookOutcome'.outcome.logged
                   = SelectSeq(DefinersOf(hookName), LAMBDA i : plugins[i].does = "throws")
              /\ ~hookOutcome'.outcome.propagated]_vars

\* a hook threw on the first of three plugins and the hook of the third ran
C24_Witness ==
    /\ hookOutcome # <<>>
    /\ hookOutcome.hook = "beforeRender"
    /\ Len(plugins) = 3
    /\ hookOutcome.outcome.ran = << 1, 3 >>
    /\ hookOutcome.outcome.logged = << 1 >>
    /\ ~hookOutcome.outcome.propagated

\* C25: no column listed in criticalColumns is ever hidden, through the
\* construction of the table, the loading of the saved preferences,
\* toggleColumn and resetSettings, with or without the column manager.
C25_CriticalColumnsStayVisible ==
    tableConfig # <<>> => tableConfig.criticalColumns \cap hiddenColumns = {}

\* C30: a smartRender that takes the fast path leaves the Store of the
\* instance with the raw dataset a fresh creation with the same data would
\* give it, for a plain array and for a legacy object with the rows under
\* Relacao, for a table and for an accordion.
C30_FastPathEqualsCreation ==
    [][\A payload \in Payloads, config \in SmartConfigs :
          (/\ registry # <<>>
           /\ registry.hash = getConfigHash(config)
           /\ smartRender(payload, config))
              => data' = relacao(payload)]_vars

====
